---- MODULE Spec2Model ----
\* A model of the CHAOS highlight pipeline: the kill-feed deduplication state
\* machine of chaos_lib/analyzers.py (analyze_killfeed) and the correlation,
\* scoring and merge engine of chaos_lib/correlator.py (run_correlation).
\*
\* Text is a sequence of one-character strings, so that split(), join(),
\* strip() and substring tests are computed and not assumed.
\* A timestamp of the kill feed is the exact rational frame_idx / fps, kept as
\* the pair <<numerator, denominator>>; floating-point rounding is not modelled.
EXTENDS Integers, Sequences, FiniteSets, TLC

VARIABLES
    config,                 \* the configuration dictionary (read-only)
    \* ---- analyze_killfeed ----
    pc,                     \* "start", "loop", "done", "raised", "idle"
    cap,                    \* the cv2.VideoCapture handle: "none", "open", "released"
    total_frames,           \* CAP_PROP_FRAME_COUNT
    fps,                    \* CAP_PROP_FPS
    frame_idx,              \* the loop variable of range(0, total_frames, frame_step)
    active_kills,           \* the ledger: victim -> [first_seen |-> timestamp]
    kill_events,            \* the list analyze_killfeed returns
    current_frame_victims,  \* the set of victims detected in the last frame
    frames_seen,            \* history: per processed frame, what was detected and the ledger around it
    ret,                    \* what the last cap.read() returned: "unread", "True", "False"
    \* ---- run_correlation ----
    cpc,                    \* "load", "window", "merge", "written", "returned", "raised", "idle"
    all_events,             \* the list read from all_events.json
    df,                     \* the events sorted by (source_video, timestamp_seconds)
    trigger_idx,            \* position in trigger_events
    potential_clips,        \* the candidate clips, one per trigger
    merged_clips,           \* the running result of the merge pass
    merge_idx,              \* position in potential_clips[1:]
    highlights,             \* the list in ordered_highlights.json
    highlights_file,        \* ordered_highlights.json: "absent", "stale" (left by an earlier run), "written"
    \* ---- a second call in the same process ----
    run,                    \* 1 in the first call of a function, 2 in the second
    video_frames,           \* the contours of the sampled frames of the video, when it is read twice
    first_kill_events,      \* what the first call of analyze_killfeed returned
    first_highlights,       \* what ordered_highlights.json held after the first call of run_correlation
    \* ---- RobustPipeline.run_analysis_parallel ----
    tpc,                    \* per submitted video: where its process_single_video call stands
    submitted,              \* per submitted call: the path of its video, as the manifest has it
    video_stem,             \* per submitted video: its file name without directory and extension
    progress,               \* self.progress: the lists videos_processed and videos_failed
    progress_file,          \* what processing_progress.json holds
    writers,                \* per object: the videos whose worker has written it
    \* ---- analyze_audio ----
    apc,                    \* "start", "extracted", "transcribed", "returned", "idle"
    audio_path,             \* the local audio_path: NoPath or the path _extract_audio returned
    audio_file,             \* the temporary .wav on disk: "absent", "partial", "present"
    voice_events,           \* the first list analyze_audio returns
    spike_events,           \* the second list analyze_audio returns
    audio_exit,             \* how analyze_audio ended: "", "success", "extraction_failure",
                            \* "transcription_failure", "energy_failure"
    \* ---- run_analysis ----
    bpc,                    \* "start", "loop", "written", "returned", "raised", "idle"
    video_paths,            \* the list read from manifest.json
    video_pos,              \* position of the loop over video_paths
    batch_events,           \* run_analysis's local all_events
    events_file,            \* all_events.json: <<>> while absent, else <<the list written>>
    batch_log,              \* history: per video of the loop, what the two analyzers met and returned
    \* ---- PipelineWorker ----
    wpc,                    \* where run() stands: "start", "check", "wait", "recheck", "emit",
                            \* "exec", "final", "finish", "finished", "idle"
    stages,                 \* self.stages
    stage_pos,              \* the loop variable i of run(), counted from 1
    is_paused,              \* self.is_paused
    should_stop,            \* self.should_stop
    overall_success,        \* the local overall_success of run()
    emitted,                \* history: the stage signals emitted, and the log message of each stop()
    \* ---- scale_roi_for_resolution ----
    rpc,                    \* "call", "returned", "idle"
    roi_coords,             \* the argument [x1, y1, x2, y2], at the reference resolution
    video_width,            \* the argument video_width
    video_height,           \* the argument video_height
    scaled_roi,             \* the list returned, <<>> before the return
    \* ---- RobustPipeline, run after run ----
    spc,                    \* "ready" between two stages, "running" inside an analysis run, "idle"
    all_videos,             \* the list in manifest.json
    unprocessed,            \* the videos of the current analysis run that are still to be processed
    selection,              \* history: what the latest get_unprocessed_videos call found recorded
                            \* and what it returned
    times_processed         \* history: per video, the process_single_video calls since the
                            \* latest reset_progress

kfvars == <<pc, cap, total_frames, fps, frame_idx, active_kills, kill_events,
            current_frame_victims, frames_seen, ret>>
corrvars == <<cpc, all_events, df, trigger_idx, potential_clips, merged_clips,
              merge_idx, highlights, highlights_file>>
runvars == <<run, video_frames, first_kill_events, first_highlights>>
parvars == <<tpc, submitted, video_stem, progress, progress_file, writers>>
audvars == <<apc, audio_path, audio_file, voice_events, spike_events, audio_exit>>
batvars == <<bpc, video_paths, video_pos, batch_events, events_file, batch_log>>
wrkvars == <<wpc, stages, stage_pos, is_paused, should_stop, overall_success, emitted>>
roivars == <<rpc, roi_coords, video_width, video_height, scaled_roi>>
resvars == <<spc, all_videos, unprocessed, selection, times_processed>>
restvars == <<batvars, wrkvars, roivars, resvars>>
vars == <<config, kfvars, corrvars, runvars, parvars, audvars, restvars>>

\* ------------------------------------------------------------------ bounds
MaxSamples == 4     \* sampled frames per video
MaxCands == 2       \* contours per frame
MaxEvents == 4      \* events in all_events.json
MaxVideos == 2      \* videos submitted to the thread pool
MaxSegments == 2    \* segments of a transcription
MaxRmsFrames == 3   \* frames of the energy curve
MaxBatch == 2       \* videos in manifest.json
MaxStages == 2      \* stages handed to a PipelineWorker
MaxText == 5        \* characters of an OCR text, where every text is tried

\* ------------------------------------------------------------------ text
SP == " "

RECURSIVE LStrip(_)
LStrip(s) == IF s # <<>> /\ Head(s) = SP THEN LStrip(Tail(s)) ELSE s

RECURSIVE RStrip(_)
RStrip(s) == IF s # <<>> /\ s[Len(s)] = SP THEN RStrip(SubSeq(s, 1, Len(s) - 1)) ELSE s

\* str.strip()
Strip(s) == RStrip(LStrip(s))

\* the first word of s (s starts with a non-space character)
RECURSIVE FirstWord(_)
FirstWord(s) == IF s = <<>> \/ Head(s) = SP THEN <<>> ELSE <<Head(s)>> \o FirstWord(Tail(s))

\* str.split(): the whitespace-delimited tokens
RECURSIVE Split(_)
Split(s) ==
    LET t == LStrip(s)
    IN IF t = <<>> THEN <<>>
       ELSE LET w == FirstWord(t)
            IN <<w>> \o Split(SubSeq(t, Len(w) + 1, Len(t)))

\* " ".join(parts)
RECURSIVE Join(_)
Join(parts) ==
    IF parts = <<>> THEN <<>>
    ELSE IF Len(parts) = 1 THEN parts[1]
    ELSE parts[1] \o <<SP>> \o Join(Tail(parts))

\* the positions at which sep occurs in s
Occurrences(s, sep) ==
    {i \in 1..(Len(s) - Len(sep) + 1) : SubSeq(s, i, i + Len(sep) - 1) = sep}

\* sep in s
Contains(s, sep) == Occurrences(s, sep) # {}

Min(S) == CHOOSE x \in S : \A y \in S : x <= y

\* s.split(sep)[0]
BeforeFirst(s, sep) ==
    IF Contains(s, sep) THEN SubSeq(s, 1, Min(Occurrences(s, sep)) - 1) ELSE s

PlusSep == <<SP, "+", SP>>
ArrowSep == <<SP, "►", SP>>
PlusTok == <<"+">>

\* list.index(x)
IndexOf(parts, x) == Min({i \in 1..Len(parts) : parts[i] = x})

\* Python's None where a name is expected: no token is empty
Null == <<>>

\* Python's None as the result of _parse_and_identify_kill
NoParse == [none |-> TRUE]

\* mutant: the killer is the first token whatever the text holds
ParseAndIdentifyKill_FirstToken(text) ==
    LET parts == Split(text)
    IN IF Len(parts) < 2 THEN NoParse
       ELSE [killer |-> parts[1],
             assister |-> IF \E i \in 1..Len(parts) : parts[i] = PlusTok
                          THEN IF IndexOf(parts, PlusTok) + 1 <= Len(parts)
                               THEN parts[IndexOf(parts, PlusTok) + 1]
                               ELSE Null
                          ELSE Null,
             victim |-> parts[Len(parts)],
             is_player_kill |-> TRUE,
             raw_text |-> text]

\* _parse_and_identify_kill
ParseAndIdentifyKill(text) ==
    LET parts == Split(text)
    IN IF Len(parts) < 2 THEN NoParse
       ELSE [killer |-> IF Contains(text, PlusSep) THEN Strip(BeforeFirst(text, PlusSep))
                        ELSE IF Contains(text, ArrowSep) THEN Strip(BeforeFirst(text, ArrowSep))
                        ELSE parts[1],
             assister |-> IF \E i \in 1..Len(parts) : parts[i] = PlusTok
                          THEN IF IndexOf(parts, PlusTok) + 1 <= Len(parts)
                               THEN parts[IndexOf(parts, PlusTok) + 1]
                               ELSE Null
                          ELSE Null,
             victim |-> parts[Len(parts)],
             is_player_kill |-> TRUE,
             raw_text |-> text]

\* ------------------------------------------------------------------ rationals
\* a / b for b > 0, as the pair <<a, b>>
RatSub(a, b) == <<a[1] * b[2] - b[1] * a[2], a[2] * b[2]>>
RatGT(a, b) == a[1] * b[2] > b[1] * a[2]
RatGE(a, b) == a[1] * b[2] >= b[1] * a[2]
RatLE(a, b) == RatGE(b, a)

\* mutant: the frame index taken for the time in seconds
Timestamp_NoFps(idx, f) == <<idx, 1>>

\* timestamp = frame_idx / fps
Timestamp(idx, f) == <<idx, f>>

\* ------------------------------------------------------------------ inputs
VideoPath == "a.mp4"

Bob == <<"B", "o", "b">>
Al == <<"A", "l">>
TextBob == <<"K", SP, "►", SP>> \o Bob
TextAssistHead == <<"K", SP, "+", SP, "J">>
TextAssistTail == <<"►", SP>> \o Al

\* what one contour of a frame gives: its bounding box, what the OCR reader
\* returns for its crop, and what the two icon detectors return for it
CandidatePool ==
    { [h |-> 3, w |-> 12, ocr |-> <<TextBob>>, headshot |-> FALSE, smoke |-> FALSE],
      [h |-> 3, w |-> 9, ocr |-> <<TextAssistHead, TextAssistTail>>, headshot |-> TRUE, smoke |-> FALSE],
      [h |-> 3, w |-> 12, ocr |-> <<Bob>>, headshot |-> FALSE, smoke |-> FALSE],
      [h |-> 3, w |-> 12, ocr |-> <<>>, headshot |-> FALSE, smoke |-> FALSE],
      [h |-> 1, w |-> 12, ocr |-> <<TextBob>>, headshot |-> FALSE, smoke |-> TRUE] }

RECURSIVE SeqsUpTo(_, _)
SeqsUpTo(S, n) ==
    IF n = 0 THEN {<<>>}
    ELSE LET shorter == SeqsUpTo(S, n - 1)
         IN shorter \cup {Append(q, x) : q \in shorter, x \in S}

\* the texts the parser is tried on: every text of up to MaxText characters
\* over a letter, the space, the plus sign and the marker, and some longer
\* kill lines
ParseTexts ==
    SeqsUpTo({"K", SP, "+", "►"}, MaxText)
    \cup { TextBob,
           Join(<<TextAssistHead, TextAssistTail>>),
           <<"M", SP, "K", SP, "►", SP>> \o Al,
           <<"M", SP, "K", SP, "+", SP, "J", SP, "►", SP>> \o Al,
           <<"K", SP, "►", SP, "J", SP, "+", SP>> \o Al,
           <<"K", "►", SP>> \o Bob,
           <<"K", SP, "+", SP, "J", SP, "+", SP>> \o Bob }

\* the parse of every text the reader returns for a contour of the pool,
\* computed once
ParsedTexts ==
    [text \in {Join(c.ocr) : c \in CandidatePool} |-> ParseAndIdentifyKill(text)]

\* parsed_info = _parse_and_identify_kill(full_text)
ParsedInfo(full_text) ==
    IF full_text \in DOMAIN ParsedTexts THEN ParsedTexts[full_text]
    ELSE ParseAndIdentifyKill(full_text)

FrameContours == SeqsUpTo(CandidatePool, MaxCands)

\* the configurations the runs are checked under
Configs ==
    { [killfeed_rect_min_height |-> 2, killfeed_rect_max_height |-> 4,
       killfeed_rect_min_aspect_ratio |-> <<3, 1>>,
       kill_memory_duration_seconds |-> <<1, 1>>,
       ocr_frame_step |-> 2,
       clip_pre_buffer_seconds |-> 1, clip_post_buffer_seconds |-> 2,
       scoring_weights |-> [kill |-> 10, multi_kill_bonus |-> 15, team_hype_voice |-> 20,
                            enemy_rage_chat |-> 25, audio_spike |-> 5]] }

\* CAP_PROP_FPS of the videos: with a frame step of 2, a sample every 1 s and every 0.5 s
FpsValues == {2, 4}

\* ------------------------------------------------------------------ no batch running
\* what load_progress returns when there is no progress file
NoProgress == [videos_processed |-> <<>>, videos_failed |-> <<>>]

\* the batch driver's variables while a single function is looked at
ParIdle ==
    /\ tpc = <<>>
    /\ submitted = <<>>
    /\ video_stem = <<>>
    /\ progress = NoProgress
    /\ progress_file = NoProgress
    /\ writers = <<>>

\* audio_path = None
NoPath == "None"

\* analyze_audio's variables while another function is looked at
AudioIdle ==
    /\ apc = "idle"
    /\ audio_path = NoPath
    /\ audio_file = "absent"
    /\ voice_events = <<>>
    /\ spike_events = <<>>
    /\ audio_exit = ""

\* run_analysis's variables while another function is looked at
BatchIdle ==
    /\ bpc = "idle"
    /\ video_paths = <<>>
    /\ video_pos = 1
    /\ batch_events = <<>>
    /\ events_file = <<>>
    /\ batch_log = <<>>

\* the worker thread's variables while no worker exists
WorkerIdle ==
    /\ wpc = "idle"
    /\ stages = <<>>
    /\ stage_pos = 1
    /\ is_paused = FALSE
    /\ should_stop = FALSE
    /\ overall_success = TRUE
    /\ emitted = <<>>

\* scale_roi_for_resolution's variables while it is not called
RoiIdle ==
    /\ rpc = "idle"
    /\ roi_coords = <<>>
    /\ video_width = 0
    /\ video_height = 0
    /\ scaled_roi = <<>>

\* the resumable pipeline's variables while no pipeline object exists
ResumeIdle ==
    /\ spc = "idle"
    /\ all_videos = <<>>
    /\ unprocessed = <<>>
    /\ selection = <<>>
    /\ times_processed = <<>>

\* the variables of the functions that are not running
RestIdle == BatchIdle /\ WorkerIdle /\ RoiIdle /\ ResumeIdle

\* ------------------------------------------------------------------ analyze_killfeed
\* aspect_ratio = w / h if h > 0 else 0
AspectRatio(w, h) == IF h > 0 THEN <<w, h>> ELSE <<0, 1>>

\* mutant: the height has no upper limit
ShapeOk_NoMaxHeight(cfg, w, h) ==
    /\ cfg.killfeed_rect_min_height <= h
    /\ RatGE(AspectRatio(w, h), cfg.killfeed_rect_min_aspect_ratio)

\* the shape filter: min_h <= h <= max_h and aspect_ratio >= min_aspect_ratio
ShapeOk(cfg, w, h) ==
    /\ cfg.killfeed_rect_min_height <= h
    /\ h <= cfg.killfeed_rect_max_height
    /\ RatGE(AspectRatio(w, h), cfg.killfeed_rect_min_aspect_ratio)

KillEvent(video, timestamp, parsed, cand) ==
    [source_video |-> video,
     timestamp_seconds |-> timestamp,
     type |-> "kill",
     details |-> [raw_text |-> parsed.raw_text,
                  detected_player |-> parsed.killer,
                  assister |-> parsed.assister,
                  victim |-> parsed.victim,
                  isHeadshot |-> cand.headshot,
                  throughSmoke |-> cand.smoke]]

\* mutant: every detection counts as a new kill
IsNewKill_Always(victim, ledger) == TRUE

\* victim not in active_kills
IsNewKill(victim, ledger) == victim \notin DOMAIN ledger

\* mutant: the new victim is not written to the ledger
Remember_Forget(ledger, victim, timestamp) == ledger

\* active_kills[victim] = {"first_seen": timestamp}
Remember(ledger, victim, timestamp) ==
    [v \in DOMAIN ledger \cup {victim} |->
        IF v = victim THEN [first_seen |-> timestamp] ELSE ledger[v]]

\* mutant: a victim seen again gets the time of its latest detection
Identify_Refresh(st, cand, parsed, video, timestamp) ==
    [active_kills |-> Remember(st.active_kills, parsed.victim, timestamp),
     kill_events |->
         IF IsNewKill(parsed.victim, st.active_kills)
         THEN Append(st.kill_events, KillEvent(video, timestamp, parsed, cand))
         ELSE st.kill_events,
     current_frame_victims |-> st.current_frame_victims \cup {parsed.victim}]

\* step 3 of the loop body, the state logic, for a parsed kill line
Identify(st, cand, parsed, video, timestamp) ==
    IF IsNewKill(parsed.victim, st.active_kills)
    THEN [active_kills |-> Remember(st.active_kills, parsed.victim, timestamp),
          kill_events |->
              IF parsed.is_player_kill
              THEN Append(st.kill_events, KillEvent(video, timestamp, parsed, cand))
              ELSE st.kill_events,
          current_frame_victims |-> st.current_frame_victims \cup {parsed.victim}]
    ELSE [st EXCEPT !.current_frame_victims = st.current_frame_victims \cup {parsed.victim}]

\* if not parsed_info or not parsed_info.get('victim'): continue
Accept(st, cand, parsed, video, timestamp) ==
    IF parsed = NoParse THEN st
    ELSE IF parsed.victim = <<>> THEN st
    ELSE Identify(st, cand, parsed, video, timestamp)

\* the body of "for cnt in contours" for one contour; st holds the three locals
ProcessCandidate(st, cand, cfg, video, timestamp) ==
    IF ~ShapeOk(cfg, cand.w, cand.h) THEN st
    ELSE IF cand.ocr = <<>> THEN st
    ELSE Accept(st, cand, ParsedInfo(Join(cand.ocr)), video, timestamp)

RECURSIVE ProcessContours(_, _, _, _, _)
ProcessContours(st, contours, cfg, video, timestamp) ==
    IF contours = <<>> THEN st
    ELSE ProcessContours(ProcessCandidate(st, Head(contours), cfg, video, timestamp),
                         Tail(contours), cfg, video, timestamp)

\* mutant: >= in place of >
Expired_AtLeast(timestamp, first_seen, memory_duration) ==
    RatGE(RatSub(timestamp, first_seen), memory_duration)

\* mutant: a missed frame is enough, whatever the age
Expired_AnyAge(timestamp, first_seen, memory_duration) == TRUE

\* timestamp - active_kills[vic]["first_seen"] > memory_duration
Expired(timestamp, first_seen, memory_duration) ==
    RatGT(RatSub(timestamp, first_seen), memory_duration)

\* mutant: the sweep does not look at the current frame's detections
Disappeared_Always(vic, frame_victims) == TRUE

\* vic not in current_frame_victims
Disappeared(vic, frame_victims) == vic \notin frame_victims

\* mutant: no cleanup
Sweep_Keep(ledger, frame_victims, timestamp, memory_duration) == ledger

\* step 4, the state cleanup at the end of a frame
Sweep(ledger, frame_victims, timestamp, memory_duration) ==
    LET gone == {vic \in DOMAIN ledger :
                    /\ Disappeared(vic, frame_victims)
                    /\ Expired(timestamp, ledger[vic].first_seen, memory_duration)}
    IN [v \in DOMAIN ledger \ gone |-> ledger[v]]

EmptyLedger == [v \in {} |-> [first_seen |-> <<0, 1>>]]

\* cap = cv2.VideoCapture(video_path); if not cap.isOpened(): return []
OpenVideo ==
    /\ pc = "start"
    /\ \E opened \in BOOLEAN, f \in FpsValues,
          n \in {0, (MaxSamples - 1) * config.ocr_frame_step + 1} :
          /\ cap' = IF opened THEN "open" ELSE "none"
          /\ pc' = IF opened THEN "loop" ELSE "done"
          /\ total_frames' = IF opened THEN n ELSE 0
          /\ fps' = f
    /\ UNCHANGED <<config, restvars, runvars, parvars, audvars, frame_idx, active_kills, kill_events, current_frame_victims,
                   frames_seen, ret, corrvars>>

\* the victim a contour yields, as a sequence of zero or one names (history only)
Detection(cand, cfg) ==
    IF ~ShapeOk(cfg, cand.w, cand.h) \/ cand.ocr = <<>> THEN <<>>
    ELSE LET parsed == ParsedInfo(Join(cand.ocr))
         IN IF parsed = NoParse THEN <<>> ELSE <<parsed.victim>>

RECURSIVE Detections(_, _)
Detections(contours, cfg) ==
    IF contours = <<>> THEN <<>>
    ELSE Detection(Head(contours), cfg) \o Detections(Tail(contours), cfg)

\* the body of the frame loop for a frame that cap.read() returns and whose
\* contours are contours
Frame(contours) ==
    /\ \E timestamp \in {Timestamp(frame_idx, fps)} :
          \E st \in {ProcessContours([active_kills |-> active_kills,
                                      kill_events |-> kill_events,
                                      current_frame_victims |-> {}],
                                     contours, config, VideoPath, timestamp)} :
          \E swept \in {Sweep(st.active_kills, st.current_frame_victims, timestamp,
                              config.kill_memory_duration_seconds)} :
             /\ active_kills' = swept
             /\ kill_events' = st.kill_events
             /\ current_frame_victims' = st.current_frame_victims
             /\ frames_seen' = Append(frames_seen,
                                      [frame_idx |-> frame_idx,
                                       timestamp |-> timestamp,
                                       n_detections |-> Len(Detections(contours, config)),
                                       victims |-> st.current_frame_victims,
                                       ledger_before |-> active_kills,
                                       ledger_after |-> swept,
                                       events_before |-> Len(kill_events),
                                       events_after |-> Len(st.kill_events)])
    /\ frame_idx' = frame_idx + config.ocr_frame_step
    /\ ret' = "True"
    /\ UNCHANGED <<config, restvars, runvars, parvars, audvars, pc, cap, total_frames, fps, corrvars>>

\* one iteration of the frame loop whose cap.read() succeeds
ProcessFrame ==
    /\ pc = "loop"
    /\ frame_idx < total_frames
    /\ \E contours \in FrameContours : Frame(contours)

\* mutant: a frame that cannot be decoded ends the call like a video that
\* cannot be opened, with an empty list
ReadFails_ReturnsNothing ==
    /\ pc = "loop"
    /\ frame_idx < total_frames
    /\ pc' = "done"
    /\ cap' = "released"
    /\ ret' = "False"
    /\ kill_events' = <<>>
    /\ UNCHANGED <<config, restvars, runvars, parvars, audvars, total_frames, fps, frame_idx, active_kills,
                   current_frame_victims, frames_seen, corrvars>>

\* ret is False: break, cap.release(), return kill_events
ReadFails ==
    /\ pc = "loop"
    /\ frame_idx < total_frames
    /\ pc' = "done"
    /\ cap' = "released"
    /\ ret' = "False"
    /\ UNCHANGED <<config, restvars, runvars, parvars, audvars, total_frames, fps, frame_idx, active_kills, kill_events,
                   current_frame_victims, frames_seen, corrvars>>

\* the range is exhausted: cap.release(), return kill_events
LoopEnds ==
    /\ pc = "loop"
    /\ frame_idx >= total_frames
    /\ pc' = "done"
    /\ cap' = "released"
    /\ UNCHANGED <<config, restvars, runvars, parvars, audvars, total_frames, fps, frame_idx, active_kills, kill_events,
                   current_frame_victims, frames_seen, ret, corrvars>>

\* reader.readtext (or an icon detector, or the division by an fps of 0)
\* raises while a frame is processed: the exception leaves analyze_killfeed
\* past cap.release(), and the locals are lost. The handle stays open unless
\* the interpreter has collected the VideoCapture object by the time the
\* caller goes on.
FrameRaises ==
    /\ pc = "loop"
    /\ frame_idx < total_frames
    /\ pc' = "raised"
    /\ \E collected \in BOOLEAN : cap' = IF collected THEN "released" ELSE "open"
    /\ ret' = "True"
    /\ UNCHANGED <<config, restvars, runvars, parvars, audvars, total_frames, fps, frame_idx, active_kills,
                   kill_events, current_frame_victims, frames_seen, corrvars>>

\* the correlator's variables while the kill feed is analysed
CorrIdle ==
    /\ cpc = "idle"
    /\ all_events = <<>>
    /\ df = <<>>
    /\ trigger_idx = 1
    /\ potential_clips = <<>>
    /\ merged_clips = <<>>
    /\ merge_idx = 1
    /\ highlights = <<>>
    /\ highlights_file = "absent"
    /\ first_highlights = <<>>

\* analyze_killfeed is entered
KillfeedStart ==
    /\ config \in Configs
    /\ pc = "start"
    /\ cap = "none"
    /\ total_frames = 0
    /\ fps = 0
    /\ frame_idx = 0
    /\ active_kills = EmptyLedger
    /\ kill_events = <<>>
    /\ current_frame_victims = {}
    /\ frames_seen = <<>>
    /\ ret = "unread"
    /\ CorrIdle
    /\ ParIdle
    /\ AudioIdle
    /\ RestIdle
    /\ run = 1
    /\ first_kill_events = <<>>

InitKillfeed ==
    /\ KillfeedStart
    /\ video_frames = <<>>

NextKillfeed == OpenVideo \/ ProcessFrame \/ ReadFails \/ LoopEnds \/ FrameRaises

SpecKillfeed == InitKillfeed /\ [][NextKillfeed]_vars

\* ------------------------------------------------------------------ run_correlation
Rage == <<"r", "a", "g", "e">>
Hype == <<"h", "y", "p", "e">>
Neutral == <<"n", "e", "u", "t", "r", "a", "l">>

KillDetails ==
    [raw_text |-> TextBob, detected_player |-> <<"K">>, assister |-> Null, victim |-> Bob,
     isHeadshot |-> FALSE, throughSmoke |-> FALSE]

Ev(video, t, type, details) ==
    [source_video |-> video, timestamp_seconds |-> t, type |-> type, details |-> details]

\* the events all_events.json is drawn from; the timestamps are whole seconds
EventPool ==
    { Ev("a.mp4", 1, "kill", KillDetails),
      Ev("a.mp4", 2, "kill", KillDetails),
      Ev("a.mp4", 4, "kill", KillDetails),
      Ev("b.mp4", 1, "kill", KillDetails),
      Ev("a.mp4", 3, "chat", [text |-> <<"u", SP>> \o Rage \o <<"d">>, sentiment |-> Neutral]),
      Ev("b.mp4", 0, "chat", [text |-> <<"g", "g">>, sentiment |-> Neutral]),
      Ev("b.mp4", 3, "voice", [text |-> <<SP>> \o Hype]),
      Ev("a.mp4", 7, "voice", [text |-> Hype]),
      Ev("a.mp4", 2, "audio_spike", [intensity |-> 9]),
      Ev("a.mp4", 6, "kill", KillDetails) }

EventLists == SeqsUpTo(EventPool, MaxEvents)

\* the order of the video paths as strings
VideoRank(v) == IF v = "a.mp4" THEN 1 ELSE 2

Quote == "'"
TextKey == <<Quote, "t", "e", "x", "t", Quote, ":", SP, Quote>>
SentimentKey == <<Quote, ",", SP, Quote, "s", "e", "n", "t", "i", "m", "e", "n", "t", Quote, ":", SP, Quote>>

\* str(details), the repr of the details dictionary: {'text': '...'} for a
\* voice record, {'text': '...', 'sentiment': '...'} for a chat record; the
\* records without a text are never searched
DetailsStr(details) ==
    IF "text" \notin DOMAIN details THEN <<"{", "}">>
    ELSE IF "sentiment" \in DOMAIN details
    THEN <<"{">> \o TextKey \o details.text \o SentimentKey \o details.sentiment \o <<Quote, "}">>
    ELSE <<"{">> \o TextKey \o details.text \o <<Quote, "}">>

\* a stable sort: element i goes after the elements whose key precedes its
\* key and after the earlier elements of equal key
StableSort(seq, Before(_, _)) ==
    LET n == Len(seq)
        pos(i) == 1 + Cardinality({j \in 1..n :
                          \/ Before(seq[j], seq[i])
                          \/ ~Before(seq[i], seq[j]) /\ j < i})
    IN [p \in 1..n |-> seq[CHOOSE i \in 1..n : pos(i) = p]]

\* the key (source_video, timestamp_seconds)
EventBefore(x, y) ==
    \/ VideoRank(x.source_video) < VideoRank(y.source_video)
    \/ /\ x.source_video = y.source_video
       /\ x.timestamp_seconds < y.timestamp_seconds

\* df.sort_values(by=['source_video', 'timestamp_seconds'])
SortEvents(events) == StableSort(events, EventBefore)

\* df[df['type'] == t]
OfType(frame, t) == SelectSeq(frame, LAMBDA e : e.type = t)

\* mutant: the window takes the events of every video
InWindow_AnyVideo(e, video, window_start, window_end) ==
    /\ e.timestamp_seconds >= window_start
    /\ e.timestamp_seconds <= window_end

\* mutant: the end of the window excluded
InWindow_Open(e, video, window_start, window_end) ==
    /\ e.source_video = video
    /\ e.timestamp_seconds >= window_start
    /\ e.timestamp_seconds < window_end

\* the row filter of window_df
InWindow(e, video, window_start, window_end) ==
    /\ e.source_video = video
    /\ e.timestamp_seconds >= window_start
    /\ e.timestamp_seconds <= window_end

WindowDf(frame, video, window_start, window_end) ==
    SelectSeq(frame, LAMBDA e : InWindow(e, video, window_start, window_end))

\* any(word in d_str for d_str in window_df[window_df['type'] == t]['details_str'])
AnyMentions(window_df, t, word) ==
    \E i \in 1..Len(window_df) :
        window_df[i].type = t /\ Contains(DetailsStr(window_df[i].details), word)

\* mutant: the bonus for exactly two kills
IsMultiKill_Pair(num_kills) == num_kills = 2

\* mutant: the bonus already for one kill
IsMultiKill_One(num_kills) == num_kills >= 1

\* num_kills > 1
IsMultiKill(num_kills) == num_kills > 1

\* the score of a window
ScoreWindow(window_df, weights) ==
    LET num_kills == Len(OfType(window_df, "kill"))
    IN num_kills * weights.kill
       + (IF IsMultiKill(num_kills) THEN weights.multi_kill_bonus ELSE 0)
       + (IF AnyMentions(window_df, "chat", Rage) THEN weights.enemy_rage_chat ELSE 0)
       + (IF AnyMentions(window_df, "voice", Hype) THEN weights.team_hype_voice ELSE 0)
       + (IF OfType(window_df, "audio_spike") # <<>> THEN weights.audio_spike ELSE 0)

\* the tags of a window
TagsOf(window_df) ==
    (IF IsMultiKill(Len(OfType(window_df, "kill"))) THEN {"multi-kill"} ELSE {})
    \cup (IF AnyMentions(window_df, "chat", Rage) THEN {"enemy_rage"} ELSE {})
    \cup (IF AnyMentions(window_df, "voice", Hype) THEN {"team_hype"} ELSE {})
    \cup (IF OfType(window_df, "audio_spike") # <<>> THEN {"loud_reaction"} ELSE {})

\* the candidate clip of one trigger
CandidateClip(frame, trigger, cfg) ==
    LET window_start == trigger.timestamp_seconds - cfg.clip_pre_buffer_seconds
        window_end == trigger.timestamp_seconds + cfg.clip_post_buffer_seconds
        window_df == WindowDf(frame, trigger.source_video, window_start, window_end)
    IN [source_video |-> trigger.source_video,
        clip_start |-> window_start,
        clip_end |-> window_end,
        score |-> ScoreWindow(window_df, cfg.scoring_weights),
        tags |-> TagsOf(window_df),
        events_in_window |-> window_df]

\* df[df['type'] == 'kill'].to_dict('records')
TriggerEvents == OfType(df, "kill")

\* the key (source_video, clip_start)
ClipBefore(x, y) ==
    \/ VideoRank(x.source_video) < VideoRank(y.source_video)
    \/ /\ x.source_video = y.source_video
       /\ x.clip_start < y.clip_start

\* mutant: the final sort ascending
ScoreBefore_Ascending(x, y) == x.score < y.score

\* the key score, reverse=True
ScoreBefore(x, y) == x.score > y.score

\* mutant: clips of one video merge whatever their distance
ShouldMerge_SameVideo(current_clip, last_clip) ==
    current_clip.source_video = last_clip.source_video

\* mutant: a candidate that starts where the running clip ends is absorbed
ShouldMerge_Touching(current_clip, last_clip) ==
    /\ current_clip.source_video = last_clip.source_video
    /\ current_clip.clip_start <= last_clip.clip_end

\* mutant: the comparison of the merge test turned around
ShouldMerge_Reversed(current_clip, last_clip) ==
    /\ current_clip.source_video = last_clip.source_video
    /\ current_clip.clip_start > last_clip.clip_end

\* the test of the merge pass
ShouldMerge(current_clip, last_clip) ==
    /\ current_clip.source_video = last_clip.source_video
    /\ current_clip.clip_start < last_clip.clip_end

Max(a, b) == IF a >= b THEN a ELSE b

\* mutant: the absorbed candidate's score is dropped
MergeInto_KeepScore(last_clip, current_clip) ==
    [last_clip EXCEPT !.clip_end = Max(last_clip.clip_end, current_clip.clip_end),
                      !.tags = last_clip.tags \cup current_clip.tags]

\* mutant: the running clip keeps its end
MergeInto_KeepEnd(last_clip, current_clip) ==
    [last_clip EXCEPT !.score = last_clip.score + current_clip.score,
                      !.tags = last_clip.tags \cup current_clip.tags]

\* mutant: the running clip takes the absorbed candidate's events
MergeInto_JoinEvents(last_clip, current_clip) ==
    [last_clip EXCEPT !.clip_end = Max(last_clip.clip_end, current_clip.clip_end),
                      !.score = last_clip.score + current_clip.score,
                      !.tags = last_clip.tags \cup current_clip.tags,
                      !.events_in_window = last_clip.events_in_window \o current_clip.events_in_window]

\* what the merge pass does to last_clip
MergeInto(last_clip, current_clip) ==
    [last_clip EXCEPT !.clip_end = Max(last_clip.clip_end, current_clip.clip_end),
                      !.score = last_clip.score + current_clip.score,
                      !.tags = last_clip.tags \cup current_clip.tags]

\* all_events = json.load(f); an empty list returns; df is built and sorted
LoadEvents ==
    /\ cpc = "load"
    /\ IF all_events = <<>>
       THEN cpc' = "returned" /\ df' = df
       ELSE cpc' = "window" /\ df' = SortEvents(all_events)
    /\ UNCHANGED <<config, restvars, runvars, parvars, audvars, kfvars, all_events, trigger_idx, potential_clips, merged_clips,
                   merge_idx, highlights, highlights_file>>

\* one iteration of "for trigger in trigger_events"
ScoreTrigger ==
    /\ cpc = "window"
    /\ trigger_idx <= Len(TriggerEvents)
    /\ \E clip \in {CandidateClip(df, TriggerEvents[trigger_idx], config)} :
          potential_clips' = IF clip.events_in_window = <<>> THEN potential_clips
                             ELSE Append(potential_clips, clip)
    /\ trigger_idx' = trigger_idx + 1
    /\ UNCHANGED <<config, restvars, runvars, parvars, audvars, kfvars, cpc, all_events, df, merged_clips, merge_idx, highlights,
                   highlights_file>>

\* after the loop: no candidate returns; else sort and start the merge pass
SortCandidates ==
    /\ cpc = "window"
    /\ trigger_idx > Len(TriggerEvents)
    /\ IF potential_clips = <<>>
       THEN /\ cpc' = "returned"
            /\ UNCHANGED <<potential_clips, merged_clips, merge_idx>>
       ELSE \E sorted \in {StableSort(potential_clips, ClipBefore)} :
            /\ cpc' = "merge"
            /\ potential_clips' = sorted
            /\ merged_clips' = <<sorted[1]>>
            /\ merge_idx' = 2
    /\ UNCHANGED <<config, restvars, runvars, parvars, audvars, kfvars, all_events, df, trigger_idx, highlights, highlights_file>>

\* one iteration of "for current_clip in potential_clips[1:]"
MergeStep ==
    /\ cpc = "merge"
    /\ merge_idx <= Len(potential_clips)
    /\ \E current_clip \in {potential_clips[merge_idx]}, n \in {Len(merged_clips)} :
          merged_clips' = IF ShouldMerge(current_clip, merged_clips[n])
                          THEN [merged_clips EXCEPT ![n] = MergeInto(merged_clips[n], current_clip)]
                          ELSE Append(merged_clips, current_clip)
    /\ merge_idx' = merge_idx + 1
    /\ UNCHANGED <<config, restvars, runvars, parvars, audvars, kfvars, cpc, all_events, df, trigger_idx, potential_clips, highlights,
                   highlights_file>>

\* merged_clips.sort(key=score, reverse=True); json.dump(merged_clips, f)
RankAndWrite ==
    /\ cpc = "merge"
    /\ merge_idx > Len(potential_clips)
    /\ \E ranked \in {StableSort(merged_clips, ScoreBefore)} :
          /\ merged_clips' = ranked
          /\ highlights' = ranked
    /\ highlights_file' = "written"
    /\ cpc' = "written"
    /\ UNCHANGED <<config, restvars, runvars, parvars, audvars, kfvars, all_events, df, trigger_idx, potential_clips, merge_idx>>

\* what an earlier run over other events left in ordered_highlights.json
StaleHighlights ==
    << [source_video |-> "a.mp4", clip_start |-> 0, clip_end |-> 3, score |-> 10, tags |-> {},
        events_in_window |-> <<Ev("a.mp4", 1, "kill", KillDetails)>>] >>

\* the kill feed's variables while the events are correlated
KillfeedIdle ==
    /\ pc = "idle"
    /\ cap = "none"
    /\ total_frames = 0
    /\ fps = 0
    /\ frame_idx = 0
    /\ active_kills = EmptyLedger
    /\ kill_events = <<>>
    /\ current_frame_victims = {}
    /\ frames_seen = <<>>
    /\ ret = "unread"
    /\ video_frames = <<>>
    /\ first_kill_events = <<>>

\* run_correlation is entered with some all_events.json on disk
CorrelationStart ==
    /\ config \in Configs
    /\ KillfeedIdle
    /\ cpc = "load"
    /\ all_events \in EventLists
    /\ df = <<>>
    /\ trigger_idx = 1
    /\ potential_clips = <<>>
    /\ merged_clips = <<>>
    /\ merge_idx = 1
    /\ ParIdle
    /\ AudioIdle
    /\ RestIdle
    /\ run = 1
    /\ first_highlights = <<>>

\* the first run over a data folder: no ordered_highlights.json yet
InitCorrelation ==
    /\ CorrelationStart
    /\ highlights_file = "absent"
    /\ highlights = <<>>

\* any run over a data folder: an earlier run may have left its output
InitRerun ==
    /\ CorrelationStart
    /\ \/ highlights_file = "absent" /\ highlights = <<>>
       \/ highlights_file = "stale" /\ highlights = StaleHighlights

NextCorrelation == LoadEvents \/ ScoreTrigger \/ SortCandidates \/ MergeStep \/ RankAndWrite

SpecCorrelation == InitCorrelation /\ [][NextCorrelation]_vars

SpecRerun == InitRerun /\ [][NextCorrelation]_vars

\* ------------------------------------------------------------------ a configuration key is absent
\* cfg without the key
Without(cfg, key) == [k \in DOMAIN cfg \ {key} |-> cfg[k]]

\* the configurations that lack a required key: the pre-buffer, or an entry
\* of scoring_weights
IncompleteConfigs ==
    {Without(cfg, "clip_pre_buffer_seconds") : cfg \in Configs}
    \cup {[cfg EXCEPT !.scoring_weights = Without(@, "multi_kill_bonus")] : cfg \in Configs}

\* the keys read once the events are loaded and sorted
CorrelationKeys == {"scoring_weights", "clip_pre_buffer_seconds", "clip_post_buffer_seconds"}

\* the entries of scoring_weights that scoring the window of trigger reads
WeightsRead(frame, trigger, cfg) ==
    LET window_df == WindowDf(frame, trigger.source_video,
                              trigger.timestamp_seconds - cfg.clip_pre_buffer_seconds,
                              trigger.timestamp_seconds + cfg.clip_post_buffer_seconds)
    IN {"kill"}
       \cup (IF IsMultiKill(Len(OfType(window_df, "kill"))) THEN {"multi_kill_bonus"} ELSE {})
       \cup (IF AnyMentions(window_df, "chat", Rage) THEN {"enemy_rage_chat"} ELSE {})
       \cup (IF AnyMentions(window_df, "voice", Hype) THEN {"team_hype_voice"} ELSE {})
       \cup (IF OfType(window_df, "audio_spike") # <<>> THEN {"audio_spike"} ELSE {})

\* the events are loaded; the three keys, read only for a list that is not
\* empty, are there
LoadEventsWithKeys ==
    /\ all_events = <<>> \/ CorrelationKeys \subseteq DOMAIN config
    /\ LoadEvents

\* config['clip_pre_buffer_seconds'] and its two neighbours: KeyError, after
\* the events were loaded and sorted
KeyMissing ==
    /\ cpc = "load"
    /\ all_events # <<>>
    /\ ~(CorrelationKeys \subseteq DOMAIN config)
    /\ cpc' = "raised"
    /\ df' = SortEvents(all_events)
    /\ UNCHANGED <<config, restvars, runvars, parvars, audvars, kfvars, all_events, trigger_idx,
                   potential_clips, merged_clips, merge_idx, highlights, highlights_file>>

\* one iteration of the trigger loop whose window reads entries that are there
ScoreTriggerWithWeights ==
    /\ cpc = "window"
    /\ trigger_idx <= Len(TriggerEvents)
    /\ WeightsRead(df, TriggerEvents[trigger_idx], config) \subseteq DOMAIN config.scoring_weights
    /\ ScoreTrigger

\* weights['multi_kill_bonus'] and its like: KeyError in the iteration of the
\* first trigger whose window reads the entry, the candidates of the earlier
\* triggers already made
WeightMissing ==
    /\ cpc = "window"
    /\ trigger_idx <= Len(TriggerEvents)
    /\ ~(WeightsRead(df, TriggerEvents[trigger_idx], config) \subseteq DOMAIN config.scoring_weights)
    /\ cpc' = "raised"
    /\ UNCHANGED <<config, restvars, runvars, parvars, audvars, kfvars, all_events, df, trigger_idx,
                   potential_clips, merged_clips, merge_idx, highlights, highlights_file>>

\* run_correlation is entered with a configuration that lacks a required key
InitIncomplete ==
    /\ config \in IncompleteConfigs
    /\ KillfeedIdle
    /\ cpc = "load"
    /\ all_events \in EventLists
    /\ df = <<>>
    /\ trigger_idx = 1
    /\ potential_clips = <<>>
    /\ merged_clips = <<>>
    /\ merge_idx = 1
    /\ highlights = <<>>
    /\ highlights_file = "absent"
    /\ ParIdle
    /\ AudioIdle
    /\ RestIdle
    /\ run = 1
    /\ first_highlights = <<>>

NextIncomplete ==
    \/ LoadEventsWithKeys \/ KeyMissing \/ ScoreTriggerWithWeights \/ WeightMissing
    \/ SortCandidates \/ MergeStep \/ RankAndWrite

SpecIncomplete == InitIncomplete /\ [][NextIncomplete]_vars

\* ------------------------------------------------------------------ a second call
\* the contours of a frame of a video that is analysed twice
FramePool ==
    { <<>>,
      <<[h |-> 3, w |-> 12, ocr |-> <<TextBob>>, headshot |-> FALSE, smoke |-> FALSE]>>,
      <<[h |-> 3, w |-> 9, ocr |-> <<TextAssistHead, TextAssistTail>>, headshot |-> TRUE, smoke |-> FALSE]>>,
      <<[h |-> 3, w |-> 12, ocr |-> <<TextBob>>, headshot |-> FALSE, smoke |-> FALSE],
        [h |-> 3, w |-> 9, ocr |-> <<TextAssistHead, TextAssistTail>>, headshot |-> TRUE, smoke |-> FALSE]>> }

\* the videos that are analysed twice: the contours of each sampled frame
Videos == [1..MaxSamples -> FramePool]

\* mutant: the ledger kept at module level, surviving the call
NewLedger_Global(old) == old

\* active_kills = {} at the head of analyze_killfeed: old is what an earlier
\* call left behind
NewLedger(old) == EmptyLedger

\* one iteration of the frame loop over a video whose frames are given
PlayFrame ==
    /\ pc = "loop"
    /\ frame_idx < total_frames
    /\ video_frames # <<>>
    /\ Frame(video_frames[(frame_idx \div config.ocr_frame_step) + 1])

\* analyze_killfeed returns and is called once more on the same video: the
\* video opens as before and the locals are initialised again
CallKillfeedAgain ==
    /\ pc = "done"
    /\ run = 1
    /\ video_frames # <<>>
    /\ run' = 2
    /\ first_kill_events' = kill_events
    /\ kill_events' = <<>>
    /\ active_kills' = NewLedger(active_kills)
    /\ current_frame_victims' = {}
    /\ frames_seen' = <<>>
    /\ ret' = "unread"
    /\ frame_idx' = 0
    /\ cap' = "open"
    /\ pc' = "loop"
    /\ UNCHANGED <<config, restvars, parvars, audvars, total_frames, fps, video_frames, first_highlights, corrvars>>

\* run_correlation returns and is called once more on the same all_events.json
CallCorrelationAgain ==
    /\ cpc \in {"returned", "written"}
    /\ run = 1
    /\ run' = 2
    /\ first_highlights' = highlights
    /\ cpc' = "load"
    /\ df' = <<>>
    /\ trigger_idx' = 1
    /\ potential_clips' = <<>>
    /\ merged_clips' = <<>>
    /\ merge_idx' = 1
    /\ UNCHANGED <<config, restvars, parvars, audvars, kfvars, all_events, highlights, highlights_file,
                   video_frames, first_kill_events>>

\* a video of known frames to analyse twice, or an event list to correlate twice
InitRepeat ==
    \/ KillfeedStart /\ video_frames \in Videos
    \/ InitCorrelation

NextRepeat ==
    \/ OpenVideo \/ PlayFrame \/ LoopEnds \/ CallKillfeedAgain
    \/ LoadEvents \/ ScoreTrigger \/ SortCandidates \/ MergeStep \/ RankAndWrite
    \/ CallCorrelationAgain

SpecRepeat == InitRepeat /\ [][NextRepeat]_vars

\* ------------------------------------------------------------------ one contour through the shape filter
\* the bounding boxes cv2.boundingRect is taken to give: heights and widths
\* on both sides of the limits of the configurations
BoxHeights == 0..5
BoxWidths == 0..16

\* a contour with the given box whose crop the reader reads as a kill line
BoxCandidate(w, h) ==
    [h |-> h, w |-> w, ocr |-> <<TextBob>>, headshot |-> FALSE, smoke |-> FALSE]

\* the videos whose first sampled frame holds one red contour and whose
\* other frames hold none
BoxVideos ==
    {[k \in 1..MaxSamples |-> IF k = 1 THEN <<BoxCandidate(w, h)>> ELSE <<>>] :
        w \in BoxWidths, h \in BoxHeights}

InitShape ==
    /\ KillfeedStart
    /\ video_frames \in BoxVideos

NextOneContour == OpenVideo \/ PlayFrame \/ LoopEnds

SpecShape == InitShape /\ [][NextOneContour]_vars

\* ------------------------------------------------------------------ one contour through the parser
\* a contour that passes the shape filter and whose crop the reader reads
\* as text
TextCandidate(text) ==
    [h |-> 3, w |-> 12, ocr |-> <<text>>, headshot |-> FALSE, smoke |-> FALSE]

\* the videos whose first sampled frame holds that one contour
TextVideos ==
    {[k \in 1..MaxSamples |-> IF k = 1 THEN <<TextCandidate(text)>> ELSE <<>>] :
        text \in ParseTexts}

InitParse ==
    /\ KillfeedStart
    /\ video_frames \in TextVideos

SpecParse == InitParse /\ [][NextOneContour]_vars

\* ------------------------------------------------------------------ scale_roi_for_resolution
\* the defaults of the two reference parameters
reference_width == 2560
reference_height == 1440

\* int() of the quotient n / d, d > 0: the fraction is cut off toward zero
IntOf(n, d) == IF n >= 0 THEN n \div d ELSE -((-n) \div d)

\* max(0, min(v, limit))
Clamp(v, limit) == Max(0, Min({v, limit}))

\* the second coordinate of a pair after the x2 > x1 (y2 > y1) step
EnsureAfter(first, second, limit) ==
    IF second <= first THEN Min({first + 10, limit}) ELSE second

\* the list scale_roi_for_resolution returns
ScaleRoiForResolution(roi, width, height) ==
    LET sx1 == Clamp(IntOf(roi[1] * width, reference_width), width)
        sy1 == Clamp(IntOf(roi[2] * height, reference_height), height)
        sx2 == Clamp(IntOf(roi[3] * width, reference_width), width)
        sy2 == Clamp(IntOf(roi[4] * height, reference_height), height)
    IN <<sx1, sy1, EnsureAfter(sx1, sx2, width), EnsureAfter(sy1, sy2, height)>>

\* x and y coordinates a region is drawn from: outside the reference frame
\* on either side, on its edges, and inside it
RoiXs == {-5, 0, 1, 1920, 2550, 2559, 2560, 2600}
RoiYs == {-5, 0, 40, 300, 1439, 1440, 1500}

\* video resolutions, each an exact binary fraction of the reference one, so
\* that the float product of the code is the exact product
Resolutions == {<<5, 45>>, <<640, 360>>, <<1280, 720>>, <<1920, 1080>>,
                <<2560, 1440>>, <<3840, 2160>>}

\* the function returns
ScaleRoi ==
    /\ rpc = "call"
    /\ scaled_roi' = ScaleRoiForResolution(roi_coords, video_width, video_height)
    /\ rpc' = "returned"
    /\ UNCHANGED <<config, kfvars, corrvars, runvars, parvars, audvars, batvars, wrkvars, resvars,
                   roi_coords, video_width, video_height>>

InitRoi ==
    /\ config \in Configs
    /\ KillfeedIdle
    /\ CorrIdle
    /\ ParIdle
    /\ AudioIdle
    /\ BatchIdle
    /\ WorkerIdle /\ ResumeIdle
    /\ run = 1
    /\ rpc = "call"
    /\ roi_coords \in {<<x1, y1, x2, y2>> : x1 \in RoiXs, y1 \in RoiYs, x2 \in RoiXs, y2 \in RoiYs}
    /\ \E res \in Resolutions : video_width = res[1] /\ video_height = res[2]
    /\ scaled_roi = <<>>

NextRoi == ScaleRoi

SpecRoi == InitRoi /\ [][NextRoi]_vars

\* ------------------------------------------------------------------ analyze_audio
\* what _extract_audio returns: temp_dir/<file name without extension>.wav
TempAudioPath == "temp_audio/a.wav"

\* the segments model.transcribe can return
SegmentPool ==
    { [start |-> 0, text |-> <<SP>> \o Hype],
      [start |-> 3, text |-> <<"g", "g">>] }

Transcriptions == SeqsUpTo(SegmentPool, MaxSegments)

\* the energy curves librosa.feature.rms can return, in whole units
RmsCurves == SeqsUpTo({0, 1, 5}, MaxRmsFrames)

\* one voice event per segment
RECURSIVE VoiceEvents(_, _)
VoiceEvents(video, segments) ==
    IF segments = <<>> THEN <<>>
    ELSE <<Ev(video, Head(segments).start, "voice", [text |-> Head(segments).text])>>
         \o VoiceEvents(video, Tail(segments))

MinOf(rms) == CHOOSE x \in {rms[i] : i \in 1..Len(rms)} : \A i \in 1..Len(rms) : x <= rms[i]
MaxOf(rms) == CHOOSE x \in {rms[i] : i \in 1..Len(rms)} : \A i \in 1..Len(rms) : x >= rms[i]

\* rms_normalized[i] > 0.8, with rms_normalized = (rms - min) / (max - min + 1e-6):
\* for whole rms values, 5 (rms[i] - min) > 4 (max - min)
IsSpike(rms, i) == 5 * (rms[i] - MinOf(rms)) > 4 * (MaxOf(rms) - MinOf(rms))

\* one audio_spike event per frame above the threshold, at the frame's time
\* frames_to_time(i, sr=16000, hop_length=512) = 512 i / 16000, i from 0
RECURSIVE SpikeEventsFrom(_, _, _)
SpikeEventsFrom(video, rms, i) ==
    IF i > Len(rms) THEN <<>>
    ELSE (IF IsSpike(rms, i)
          THEN <<Ev(video, <<512 * (i - 1), 16000>>, "audio_spike",
                    [intensity |-> <<rms[i] - MinOf(rms), MaxOf(rms) - MinOf(rms)>>])>>
          ELSE <<>>)
         \o SpikeEventsFrom(video, rms, i + 1)

\* spike_events; if len(rms) > 0
SpikeEvents(video, rms) == IF Len(rms) > 0 THEN SpikeEventsFrom(video, rms, 1) ELSE <<>>

\* mutant: the temporary file removed only when nothing was raised
Cleanup_OnSuccess(path, file, raised) ==
    IF path # NoPath /\ file # "absent" /\ ~raised THEN "absent" ELSE file

\* finally: if audio_path and os.path.exists(audio_path): os.remove(audio_path)
Cleanup(path, file, raised) ==
    IF path # NoPath /\ file # "absent" THEN "absent" ELSE file

\* audio_path = _extract_audio(video_path, temp_dir) returns
ExtractAudio ==
    /\ apc = "start"
    /\ apc' = "extracted"
    /\ audio_path' = TempAudioPath
    /\ audio_file' = "present"
    /\ UNCHANGED <<config, restvars, kfvars, corrvars, runvars, parvars, voice_events, spike_events,
                   audio_exit>>

\* ffmpeg fails (check=True) or cannot be started: audio_path stays None, the
\* handler returns [], [] and finally finds no path to remove; what ffmpeg
\* wrote before it failed stays
ExtractFails ==
    /\ apc = "start"
    /\ apc' = "returned"
    /\ audio_exit' = "extraction_failure"
    /\ \E left \in {"absent", "partial"} :
          audio_file' = Cleanup(audio_path, left, TRUE)
    /\ voice_events' = <<>>
    /\ spike_events' = <<>>
    /\ UNCHANGED <<config, restvars, kfvars, corrvars, runvars, parvars, audio_path>>

\* model.transcribe returns and the voice events are built
Transcribe ==
    /\ apc = "extracted"
    /\ apc' = "transcribed"
    /\ \E segments \in Transcriptions : voice_events' = VoiceEvents(VideoPath, segments)
    /\ UNCHANGED <<config, restvars, kfvars, corrvars, runvars, parvars, audio_path, audio_file,
                   spike_events, audio_exit>>

\* model.transcribe raises: return [], [] and finally
TranscribeFails ==
    /\ apc = "extracted"
    /\ apc' = "returned"
    /\ audio_exit' = "transcription_failure"
    /\ audio_file' = Cleanup(audio_path, audio_file, TRUE)
    /\ voice_events' = <<>>
    /\ spike_events' = <<>>
    /\ UNCHANGED <<config, restvars, kfvars, corrvars, runvars, parvars, audio_path>>

\* librosa.load and the energy analysis return: return voice_events,
\* spike_events and finally
AnalyzeEnergy ==
    /\ apc = "transcribed"
    /\ apc' = "returned"
    /\ audio_exit' = "success"
    /\ \E rms \in RmsCurves : spike_events' = SpikeEvents(VideoPath, rms)
    /\ audio_file' = Cleanup(audio_path, audio_file, FALSE)
    /\ UNCHANGED <<config, restvars, kfvars, corrvars, runvars, parvars, audio_path, voice_events>>

\* librosa.load or the energy analysis raises: return [], [] and finally
EnergyFails ==
    /\ apc = "transcribed"
    /\ apc' = "returned"
    /\ audio_exit' = "energy_failure"
    /\ audio_file' = Cleanup(audio_path, audio_file, TRUE)
    /\ voice_events' = <<>>
    /\ spike_events' = <<>>
    /\ UNCHANGED <<config, restvars, kfvars, corrvars, runvars, parvars, audio_path>>

\* analyze_audio is entered; no temporary file of the video exists
InitAudio ==
    /\ config \in Configs
    /\ KillfeedIdle
    /\ CorrIdle
    /\ ParIdle
    /\ RestIdle
    /\ run = 1
    /\ apc = "start"
    /\ audio_path = NoPath
    /\ audio_file = "absent"
    /\ voice_events = <<>>
    /\ spike_events = <<>>
    /\ audio_exit = ""

NextAudio ==
    ExtractAudio \/ ExtractFails \/ Transcribe \/ TranscribeFails \/ AnalyzeEnergy \/ EnergyFails

SpecAudio == InitAudio /\ [][NextAudio]_vars

\* ------------------------------------------------------------------ run_analysis_parallel
\* the default of run_analysis_parallel's max_workers
max_workers == 2

\* the unprocessed videos, one process_single_video call submitted for each
Submitted == 1..MaxVideos

\* the position of the last ch in s, 0 when there is none
LastIndexOf(s, ch) ==
    IF \E i \in 1..Len(s) : s[i] = ch
    THEN CHOOSE i \in 1..Len(s) : s[i] = ch /\ \A j \in (i + 1)..Len(s) : s[j] # ch
    ELSE 0

\* os.path.basename(video_path)
Basename(path) == SubSeq(path, LastIndexOf(path, "/") + 1, Len(path))

\* os.path.splitext(name)[0]: the name up to its last dot, the whole name when
\* it has no dot or only leading ones
SplitextRoot(name) ==
    LET dot == LastIndexOf(name, ".")
    IN IF dot = 0 \/ \A i \in 1..(dot - 1) : name[i] = "."
       THEN name
       ELSE SubSeq(name, 1, dot - 1)

\* the folder name process_single_video and run_summary make of a path
VideoName(path) == SplitextRoot(Basename(path))

\* the paths os.walk collects below the captures folder: files ending in
\* .mp4, in any letter case, of every directory
VideoPathPool ==
    { <<"c", "/", "d", "1", "/", "r", "1", ".", "m", "p", "4">>,
      <<"c", "/", "d", "2", "/", "r", "1", ".", "m", "p", "4">>,
      <<"c", "/", "d", "1", "/", "r", "2", ".", "m", "p", "4">>,
      <<"c", "/", "d", "1", "/", "r", "1", ".", "M", "P", "4">>,
      <<"c", "/", "r", "1", ".", "a", ".", "m", "p", "4">> }

\* os.path.splitext(os.path.basename(video_path))[0] of the manifest's videos
Stems == {VideoName(path) : path \in VideoPathPool}

NoWriters ==
    [config |-> {}, progress |-> {}, progress_file |-> {},
     video_config |-> [t \in Submitted |-> {}],
     active_kills |-> [t \in Submitted |-> {}],
     all_events |-> [t \in Submitted |-> {}],
     video_data_folder |-> [n \in Stems |-> {}],
     events_json |-> [n \in Stems |-> 0]]

\* the worker of video t writes into the data folder of its stem
WritesFolder(w, t) ==
    [w EXCEPT !.video_data_folder[video_stem[t]] = @ \cup {t}]

\* the calls that a worker thread is running
Running == {t \in Submitted : tpc[t] \notin {"queued", "done", "escaped", "raised"}}

\* a worker thread takes the call for video t: self.config.copy(), the three
\* assignments to the copy, makedirs and the one-video manifest.json
Prepare(t) ==
    /\ tpc[t] = "queued"
    /\ Cardinality(Running) < max_workers
    /\ tpc' = [tpc EXCEPT ![t] = "analyze"]
    /\ writers' = WritesFolder([writers EXCEPT !.video_config[t] = @ \cup {t}], t)
    /\ UNCHANGED <<config, restvars, kfvars, corrvars, runvars, audvars, submitted, video_stem, progress, progress_file>>

\* analyzers.run_analysis(video_config): the ledger and the event list are
\* locals of the call; all_events.json goes to the video's data folder
Analyze(t) ==
    /\ tpc[t] = "analyze"
    /\ tpc' = [tpc EXCEPT ![t] = "correlate"]
    /\ writers' = WritesFolder([writers EXCEPT !.active_kills[t] = @ \cup {t},
                                               !.all_events[t] = @ \cup {t},
                                               !.events_json[video_stem[t]] = t], t)
    /\ UNCHANGED <<config, restvars, kfvars, corrvars, runvars, audvars, submitted, video_stem, progress, progress_file>>

\* correlator.run_correlation(video_config)
Correlate(t) ==
    /\ tpc[t] = "correlate"
    /\ tpc' = [tpc EXCEPT ![t] = "clip"]
    /\ writers' = WritesFolder(writers, t)
    /\ UNCHANGED <<config, restvars, kfvars, corrvars, runvars, audvars, submitted, video_stem, progress, progress_file>>

\* clipper.run_clipping(video_config)
Clip(t) ==
    /\ tpc[t] = "clip"
    /\ tpc' = [tpc EXCEPT ![t] = "record"]
    /\ UNCHANGED <<config, restvars, kfvars, corrvars, runvars, audvars, submitted, video_stem, progress, progress_file,
                   writers>>

\* one of the three stages raises: except Exception
StageRaises(t) ==
    /\ tpc[t] \in {"analyze", "correlate", "clip"}
    /\ tpc' = [tpc EXCEPT ![t] = "record_failed"]
    /\ UNCHANGED <<config, restvars, kfvars, corrvars, runvars, audvars, submitted, video_stem, progress, progress_file,
                   writers>>

\* self.progress['videos_processed'].append(video_path)
RecordProcessed(t) ==
    /\ tpc[t] = "record"
    /\ tpc' = [tpc EXCEPT ![t] = "save"]
    /\ progress' = [progress EXCEPT !.videos_processed = Append(@, t)]
    /\ writers' = [writers EXCEPT !.progress = @ \cup {t}]
    /\ UNCHANGED <<config, restvars, kfvars, corrvars, runvars, audvars, submitted, video_stem, progress_file>>

\* self.progress['videos_failed'].append(video_path)
RecordFailed(t) ==
    /\ tpc[t] = "record_failed"
    /\ tpc' = [tpc EXCEPT ![t] = "save_failed"]
    /\ progress' = [progress EXCEPT !.videos_failed = Append(@, t)]
    /\ writers' = [writers EXCEPT !.progress = @ \cup {t}]
    /\ UNCHANGED <<config, restvars, kfvars, corrvars, runvars, audvars, submitted, video_stem, progress_file>>

\* self.save_progress(): the whole of self.progress dumped to the progress file
SaveProgress(t) ==
    /\ tpc[t] \in {"save", "save_failed"}
    /\ tpc' = [tpc EXCEPT ![t] = "done"]
    /\ progress_file' = progress
    /\ writers' = [writers EXCEPT !.progress = @ \cup {t}, !.progress_file = @ \cup {t}]
    /\ UNCHANGED <<config, restvars, kfvars, corrvars, runvars, audvars, submitted, video_stem, progress>>

\* save_progress raises at line 107 (the progress file cannot be opened or
\* written): the call is inside the try block, so the except clause takes
\* over, after the video was appended to videos_processed
SaveRaises(t) ==
    /\ tpc[t] = "save"
    /\ tpc' = [tpc EXCEPT ![t] = "record_failed"]
    /\ UNCHANGED <<config, restvars, kfvars, corrvars, runvars, audvars, submitted, video_stem, progress, progress_file,
                   writers>>

\* save_progress raises at line 115, inside the except clause: the exception
\* leaves process_single_video and is kept in the future
SaveRaisesAgain(t) ==
    /\ tpc[t] = "save_failed"
    /\ tpc' = [tpc EXCEPT ![t] = "escaped"]
    /\ UNCHANGED <<config, restvars, kfvars, corrvars, runvars, audvars, submitted, video_stem, progress, progress_file,
                   writers>>

\* the main thread's as_completed loop meets the future of video t, whose
\* result() raises: the video is appended to videos_failed and the progress
\* is saved; when that save raises too, the exception leaves
\* run_analysis_parallel
CollectException(t) ==
    /\ tpc[t] = "escaped"
    /\ progress' = [progress EXCEPT !.videos_failed = Append(@, t)]
    /\ \E saved \in BOOLEAN :
          /\ tpc' = [tpc EXCEPT ![t] = IF saved THEN "done" ELSE "raised"]
          /\ progress_file' = IF saved THEN progress' ELSE progress_file
    /\ writers' = [writers EXCEPT !.progress = @ \cup {0}, !.progress_file = @ \cup {0}]
    /\ UNCHANGED <<config, restvars, kfvars, corrvars, runvars, audvars, submitted, video_stem>>

\* the video whose events run_summary reads for processed video t: the one
\* that wrote all_events.json in the folder of t's name last
SummaryReads(t) == writers.events_json[video_stem[t]]

\* run_analysis_parallel has submitted a call for every unprocessed video
InitParallel ==
    /\ config \in Configs
    /\ KillfeedIdle
    /\ CorrIdle
    /\ AudioIdle
    /\ RestIdle
    /\ run = 1
    /\ tpc = [t \in Submitted |-> "queued"]
    /\ submitted \in {f \in [Submitted -> VideoPathPool] :
                          \A t \in Submitted, u \in Submitted : t # u => f[t] # f[u]}
    /\ video_stem = [t \in Submitted |-> VideoName(submitted[t])]
    /\ progress = NoProgress
    /\ progress_file = NoProgress
    /\ writers = NoWriters

NextParallel ==
    \E t \in Submitted :
        \/ Prepare(t) \/ Analyze(t) \/ Correlate(t) \/ Clip(t) \/ StageRaises(t)
        \/ RecordProcessed(t) \/ RecordFailed(t) \/ SaveProgress(t)
        \/ SaveRaises(t) \/ SaveRaisesAgain(t) \/ CollectException(t)

SpecParallel == InitParallel /\ [][NextParallel]_vars

\* ------------------------------------------------------------------ run_analysis
\* the videos ingestion can have listed
BatchVideos == {"a.mp4", "b.mp4", "c.mp4"}

\* manifest.json: a list of distinct video paths
Manifests ==
    {m \in SeqsUpTo(BatchVideos, MaxBatch) :
        \A i \in 1..Len(m), j \in 1..Len(m) : i # j => m[i] # m[j]}

\* the lists analyze_killfeed can have accumulated for a video
KillResults(video) ==
    { <<>>,
      <<Ev(video, 1, "kill", KillDetails)>>,
      <<Ev(video, 1, "kill", KillDetails), Ev(video, 4, "kill", KillDetails)>> }

\* the lists analyze_audio can return for a video
VoiceResults(video) == { <<>>, <<Ev(video, 3, "voice", [text |-> Hype])>> }
SpikeResults(video) == { <<>>, <<Ev(video, 2, "audio_spike", [intensity |-> 9])>> }

\* what analyze_killfeed can meet in a video: it does not open, a frame in
\* the middle cannot be decoded, every frame is read, or an exception is
\* raised while a frame is processed
Met == {"unopened", "truncated", "complete", "exception"}

\* mutant: a video that does not open or decode raises out of analyze_killfeed
KillfeedOutcome_InputFatal(met, events) ==
    [raised |-> met # "complete",
     events |-> IF met = "unopened" THEN <<>> ELSE events]

\* analyze_killfeed as its caller sees it: return [] for a video that does
\* not open, return kill_events after the loop or its break, or an exception
KillfeedOutcome(met, events) ==
    [raised |-> met = "exception",
     events |-> IF met = "unopened" THEN <<>> ELSE events]

\* the manifest is read; an empty one returns before the models are loaded
LoadManifest ==
    /\ bpc = "start"
    /\ bpc' = IF video_paths = <<>> THEN "returned" ELSE "loop"
    /\ UNCHANGED <<config, kfvars, corrvars, runvars, parvars, audvars, wrkvars, roivars, resvars, video_paths, video_pos,
                   batch_events, events_file, batch_log>>

\* one iteration of "for video_path in progress": analyze_killfeed, then
\* analyze_audio, then the three extends; an exception out of analyze_killfeed
\* leaves run_analysis
AnalyzeVideo ==
    /\ bpc = "loop"
    /\ video_pos <= Len(video_paths)
    /\ \E met \in Met, video_path \in {video_paths[video_pos]} :
       \E events \in KillResults(video_path) :
       \E killfeed \in {KillfeedOutcome(met, events)} :
          IF killfeed.raised
          THEN /\ bpc' = "raised"
               /\ batch_log' = Append(batch_log,
                                      [video |-> video_path, met |-> met, kill_events |-> <<>>,
                                       spike_events |-> <<>>, voice_events |-> <<>>])
               /\ UNCHANGED <<video_pos, batch_events>>
          ELSE \E voice \in VoiceResults(video_path), spike \in SpikeResults(video_path) :
               /\ bpc' = bpc
               /\ batch_events' = batch_events \o killfeed.events \o spike \o voice
               /\ video_pos' = video_pos + 1
               /\ batch_log' = Append(batch_log,
                                      [video |-> video_path, met |-> met,
                                       kill_events |-> killfeed.events,
                                       spike_events |-> spike, voice_events |-> voice])
    /\ UNCHANGED <<config, kfvars, corrvars, runvars, parvars, audvars, wrkvars, roivars, resvars, video_paths, events_file>>

\* after the loop: json.dump(all_events, f)
WriteEvents ==
    /\ bpc = "loop"
    /\ video_pos > Len(video_paths)
    /\ bpc' = "written"
    /\ events_file' = <<batch_events>>
    /\ UNCHANGED <<config, kfvars, corrvars, runvars, parvars, audvars, wrkvars, roivars, resvars, video_paths, video_pos,
                   batch_events, batch_log>>

\* run_analysis is entered with some manifest.json in the data folder
InitBatch ==
    /\ config \in Configs
    /\ KillfeedIdle
    /\ CorrIdle
    /\ ParIdle
    /\ AudioIdle
    /\ WorkerIdle /\ RoiIdle /\ ResumeIdle
    /\ run = 1
    /\ bpc = "start"
    /\ video_paths \in Manifests
    /\ video_pos = 1
    /\ batch_events = <<>>
    /\ events_file = <<>>
    /\ batch_log = <<>>

NextBatch == LoadManifest \/ AnalyzeVideo \/ WriteEvents

SpecBatch == InitBatch /\ [][NextBatch]_vars

\* ------------------------------------------------------------------ PipelineWorker
\* the stages of the pipeline, in its order
StageNames == <<"ingest", "analyze", "correlate", "clip", "summary">>

\* the stage lists a worker is made with: the stages chosen, in pipeline order
StageLists ==
    UNION {{[k \in 1..n |-> StageNames[g[k]]] :
               g \in {f \in [1..n -> 1..Len(StageNames)] :
                         \A a \in 1..n, b \in 1..n : a < b => f[a] < f[b]}} :
           n \in 0..MaxStages}

\* the names execute_stage has a branch for
KnownStages == {StageNames[k] : k \in 1..Len(StageNames)}

\* the lists a worker can be handed besides: stages out of pipeline order, and
\* a name execute_stage does not know
OtherStageLists ==
    {<<"clip", "ingest">>, <<"publish">>, <<"ingest", "publish">>, <<"publish", "ingest">>}

\* an entry of the history: a signal with its arguments, and where run() stood
Signal(sig, stage, success) ==
    [sig |-> sig, stage |-> stage, success |-> success, at |-> wpc]

\* the configuration is loaded and validated and the folders are made; a
\* failure emits finished(False) and returns
LoadConfig ==
    /\ wpc = "start"
    /\ \E ok \in BOOLEAN :
          IF ok
          THEN wpc' = "check" /\ emitted' = emitted
          ELSE wpc' = "finished" /\ emitted' = Append(emitted, Signal("finished", "", FALSE))
    /\ overall_success' = TRUE
    /\ UNCHANGED <<config, kfvars, corrvars, runvars, parvars, audvars, batvars, roivars, resvars, stages, stage_pos,
                   is_paused, should_stop>>

\* the head of an iteration: if self.should_stop: break
CheckStop ==
    /\ wpc = "check"
    /\ stage_pos <= Len(stages)
    /\ wpc' = IF should_stop THEN "final" ELSE "wait"
    /\ UNCHANGED <<config, kfvars, corrvars, runvars, parvars, audvars, batvars, roivars, resvars, stages, stage_pos,
                   is_paused, should_stop, overall_success, emitted>>

\* the stage list is exhausted
StagesDone ==
    /\ wpc = "check"
    /\ stage_pos > Len(stages)
    /\ wpc' = "final"
    /\ UNCHANGED <<config, kfvars, corrvars, runvars, parvars, audvars, batvars, roivars, resvars, stages, stage_pos,
                   is_paused, should_stop, overall_success, emitted>>

\* mutant: the pause loop is left whatever the flags are
WaitPaused_NoWait ==
    /\ wpc = "wait"
    /\ wpc' = "recheck"
    /\ UNCHANGED <<config, kfvars, corrvars, runvars, parvars, audvars, batvars, roivars, resvars, stages, stage_pos,
                   is_paused, should_stop, overall_success, emitted>>

\* while self.is_paused and not self.should_stop: sleep - the loop is left
\* when its condition is read false
WaitPaused ==
    /\ wpc = "wait"
    /\ ~(is_paused /\ ~should_stop)
    /\ wpc' = "recheck"
    /\ UNCHANGED <<config, kfvars, corrvars, runvars, parvars, audvars, batvars, roivars, resvars, stages, stage_pos,
                   is_paused, should_stop, overall_success, emitted>>

\* mutant: the flag is not read again after the pause loop
RecheckStop_Blind ==
    /\ wpc = "recheck"
    /\ wpc' = "emit"
    /\ UNCHANGED <<config, kfvars, corrvars, runvars, parvars, audvars, batvars, roivars, resvars, stages, stage_pos,
                   is_paused, should_stop, overall_success, emitted>>

\* after the pause loop: if self.should_stop: break
RecheckStop ==
    /\ wpc = "recheck"
    /\ wpc' = IF should_stop THEN "final" ELSE "emit"
    /\ UNCHANGED <<config, kfvars, corrvars, runvars, parvars, audvars, batvars, roivars, resvars, stages, stage_pos,
                   is_paused, should_stop, overall_success, emitted>>

\* progress_updated.emit(...); stage_started.emit(stage)
StartStage ==
    /\ wpc = "emit"
    /\ wpc' = "exec"
    /\ emitted' = Append(emitted, Signal("stage_started", stages[stage_pos], FALSE))
    /\ UNCHANGED <<config, kfvars, corrvars, runvars, parvars, audvars, batvars, roivars, resvars, stages, stage_pos,
                   is_paused, should_stop, overall_success>>

\* mutant: the loop goes on after a failed stage
ExecuteStage_GoesOn ==
    /\ wpc = "exec"
    /\ \E success \in (IF stages[stage_pos] \in KnownStages THEN BOOLEAN ELSE {FALSE}) :
          /\ emitted' = Append(emitted, Signal("stage_completed", stages[stage_pos], success))
          /\ wpc' = "check"
          /\ stage_pos' = stage_pos + 1
          /\ overall_success' = (overall_success /\ success)
    /\ UNCHANGED <<config, kfvars, corrvars, runvars, parvars, audvars, batvars, roivars, resvars, stages,
                   is_paused, should_stop>>

\* success = self.execute_stage(stage, config), which catches every
\* Exception and returns False for a name it has no branch for;
\* stage_completed.emit(stage, success); a failed stage breaks
ExecuteStage ==
    /\ wpc = "exec"
    /\ \E success \in (IF stages[stage_pos] \in KnownStages THEN BOOLEAN ELSE {FALSE}) :
          /\ emitted' = Append(emitted, Signal("stage_completed", stages[stage_pos], success))
          /\ IF success
             THEN wpc' = "check" /\ stage_pos' = stage_pos + 1 /\ overall_success' = overall_success
             ELSE wpc' = "final" /\ stage_pos' = stage_pos /\ overall_success' = FALSE
    /\ UNCHANGED <<config, kfvars, corrvars, runvars, parvars, audvars, batvars, roivars, resvars, stages,
                   is_paused, should_stop>>

\* the final progress update, made if not self.should_stop
FinalUpdate ==
    /\ wpc = "final"
    /\ wpc' = "finish"
    /\ UNCHANGED <<config, kfvars, corrvars, runvars, parvars, audvars, batvars, roivars, resvars, stages, stage_pos,
                   is_paused, should_stop, overall_success, emitted>>

\* self.finished.emit(overall_success and not self.should_stop)
EmitFinished ==
    /\ wpc = "finish"
    /\ wpc' = "finished"
    /\ emitted' = Append(emitted, Signal("finished", "", overall_success /\ ~should_stop))
    /\ UNCHANGED <<config, kfvars, corrvars, runvars, parvars, audvars, batvars, roivars, resvars, stages, stage_pos,
                   is_paused, should_stop, overall_success>>

\* the interface thread calls pause() while the worker runs
Pause ==
    /\ wpc \notin {"idle", "finished"}
    /\ ~is_paused
    /\ is_paused' = TRUE
    /\ UNCHANGED <<config, kfvars, corrvars, runvars, parvars, audvars, batvars, roivars, resvars, wpc, stages,
                   stage_pos, should_stop, overall_success, emitted>>

\* the interface thread calls resume()
Resume ==
    /\ wpc \notin {"idle", "finished"}
    /\ is_paused
    /\ is_paused' = FALSE
    /\ UNCHANGED <<config, kfvars, corrvars, runvars, parvars, audvars, batvars, roivars, resvars, wpc, stages,
                   stage_pos, should_stop, overall_success, emitted>>

\* the interface thread calls stop(): the flag is set and the log message
\* emitted; a second call would change nothing but the log
Stop ==
    /\ wpc \notin {"idle", "finished"}
    /\ ~should_stop
    /\ should_stop' = TRUE
    /\ emitted' = Append(emitted, Signal("stop", "", FALSE))
    /\ UNCHANGED <<config, kfvars, corrvars, runvars, parvars, audvars, batvars, roivars, resvars, wpc, stages,
                   stage_pos, is_paused, overall_success>>

\* a worker has been made with a stage list and started
InitWorker ==
    /\ config \in Configs
    /\ KillfeedIdle
    /\ CorrIdle
    /\ ParIdle
    /\ AudioIdle
    /\ BatchIdle /\ RoiIdle /\ ResumeIdle
    /\ run = 1
    /\ wpc = "start"
    /\ stages \in StageLists \cup OtherStageLists
    /\ stage_pos = 1
    /\ is_paused = FALSE
    /\ should_stop = FALSE
    /\ overall_success = TRUE
    /\ emitted = <<>>

NextWorker ==
    \/ LoadConfig \/ CheckStop \/ StagesDone \/ WaitPaused \/ RecheckStop \/ StartStage
    \/ ExecuteStage \/ FinalUpdate \/ EmitFinished
    \/ Pause \/ Resume \/ Stop

SpecWorker == InitWorker /\ [][NextWorker]_vars

\* ------------------------------------------------------------------ RobustPipeline, run after run
\* the video paths a manifest.json is made of
ManifestVideos == {"v1.mp4", "v2.mp4", "v3.mp4"}

\* the manifests create_manifest writes: os.walk names every file once
ManifestLists ==
    {m \in SeqsUpTo(ManifestVideos, Cardinality(ManifestVideos)) : \A i \in 1..Len(m), j \in 1..Len(m) : i # j => m[i] # m[j]}

\* set(self.progress[key])
Recorded(prog, key) == {prog[key][i] : i \in 1..Len(prog[key])}

\* unprocessed[:max_videos]
FirstOnes(videos, max_videos) ==
    SubSeq(videos, 1, IF Len(videos) < max_videos THEN Len(videos) ELSE max_videos)

\* mutant: the failed videos are tried again
GetUnprocessedVideos_RetryFailed(videos, prog, debug_mode, max_videos) ==
    LET rest == SelectSeq(videos, LAMBDA v : v \notin Recorded(prog, "videos_processed"))
    IN IF debug_mode THEN FirstOnes(rest, max_videos) ELSE rest

\* get_unprocessed_videos
GetUnprocessedVideos(videos, prog, debug_mode, max_videos) ==
    LET rest == SelectSeq(videos, LAMBDA v : /\ v \notin Recorded(prog, "videos_processed")
                                             /\ v \notin Recorded(prog, "videos_failed"))
    IN IF debug_mode THEN FirstOnes(rest, max_videos) ELSE rest

\* an analysis run starts: the videos to process are selected, and with none
\* the run returns at once
StartAnalysis ==
    /\ spc = "ready"
    /\ \E debug_mode \in BOOLEAN, workers \in 1..2 :
          \E chosen \in {GetUnprocessedVideos(all_videos, progress, debug_mode, workers)} :
             /\ unprocessed' = chosen
             /\ selection' = [recorded |-> Recorded(progress, "videos_processed")
                                           \cup Recorded(progress, "videos_failed"),
                              chosen |-> chosen]
             /\ spc' = IF chosen = <<>> THEN "ready" ELSE "running"
    /\ UNCHANGED <<config, kfvars, corrvars, runvars, audvars, batvars, wrkvars, roivars,
                   parvars, all_videos, times_processed>>

\* process_single_video for one of the selected videos, in whatever order the
\* pool takes them: the video goes to videos_processed, or to videos_failed
\* when a stage raised, and the progress file is saved
ProcessSelected ==
    /\ spc = "running"
    /\ \E i \in 1..Len(unprocessed), ok \in BOOLEAN :
          /\ progress' = IF ok
                         THEN [progress EXCEPT !.videos_processed = Append(@, unprocessed[i])]
                         ELSE [progress EXCEPT !.videos_failed = Append(@, unprocessed[i])]
          /\ progress_file' = progress'
          /\ times_processed' = [times_processed EXCEPT ![unprocessed[i]] = @ + 1]
          /\ unprocessed' = SubSeq(unprocessed, 1, i - 1) \o SubSeq(unprocessed, i + 1, Len(unprocessed))
    /\ UNCHANGED <<config, kfvars, corrvars, runvars, audvars, batvars, wrkvars, roivars,
                   tpc, submitted, video_stem, writers, spc, all_videos, selection>>

\* every selected video is done: the analysis run returns
AnalysisReturns ==
    /\ spc = "running"
    /\ unprocessed = <<>>
    /\ spc' = "ready"
    /\ UNCHANGED <<config, kfvars, corrvars, runvars, audvars, batvars, wrkvars, roivars,
                   parvars, all_videos, unprocessed, selection, times_processed>>

\* reset_progress: empty lists, saved
ResetProgress ==
    /\ spc = "ready"
    /\ progress' = NoProgress
    /\ progress_file' = NoProgress
    /\ times_processed' = [v \in DOMAIN times_processed |-> 0]
    /\ UNCHANGED <<config, kfvars, corrvars, runvars, audvars, batvars, wrkvars, roivars,
                   tpc, submitted, video_stem, writers, spc, all_videos, unprocessed, selection>>

\* the program is started again, whether the last one ended or was stopped
\* between two videos: RobustPipeline.__init__ loads the progress file
NewPipeline ==
    /\ spc \in {"ready", "running"}
    /\ progress' = progress_file
    /\ unprocessed' = <<>>
    /\ spc' = "ready"
    /\ UNCHANGED <<config, kfvars, corrvars, runvars, audvars, batvars, wrkvars, roivars,
                   tpc, submitted, video_stem, writers, progress_file, all_videos, selection, times_processed>>

InitResume ==
    /\ config \in Configs
    /\ KillfeedIdle
    /\ CorrIdle
    /\ AudioIdle
    /\ BatchIdle
    /\ WorkerIdle
    /\ RoiIdle
    /\ run = 1
    /\ tpc = <<>>
    /\ submitted = <<>>
    /\ video_stem = <<>>
    /\ writers = <<>>
    /\ progress = NoProgress
    /\ progress_file = NoProgress
    /\ spc = "ready"
    /\ all_videos \in ManifestLists
    /\ unprocessed = <<>>
    /\ selection = [recorded |-> {}, chosen |-> <<>>]
    /\ times_processed = [v \in ManifestVideos |-> 0]

NextResume ==
    StartAnalysis \/ ProcessSelected \/ AnalysisReturns \/ ResetProgress \/ NewPipeline

SpecResume == InitResume /\ [][NextResume]_vars

\* ------------------------------------------------------------------ kill-feed properties
Frames == 1..Len(frames_seen)
F(k) == frames_seen[k]
Mem == config.kill_memory_duration_seconds

\* the kill events for victim v among kill_events[lo..hi]
EventsFor(v, lo, hi) == {e \in lo..hi : kill_events[e].details.victim = v}

\* the kill events for victim v appended while frame k was processed
EmittedIn(k, v) == EventsFor(v, F(k).events_before + 1, F(k).events_after)

\* v is absent from the ledger when frame k starts
Fresh(k, v) == v \notin DOMAIN F(k).ledger_before

\* time from frame i to frame j
Span(i, j) == RatSub(F(j).timestamp, F(i).timestamp)

\* frames i..j all show v, v is absent from the ledger when frame i starts,
\* and the span is shorter than the memory duration
DebounceCase(i, j, v) ==
    /\ i <= j
    /\ Fresh(i, v)
    /\ \A k \in i..j : v \in F(k).victims
    /\ RatGT(Mem, Span(i, j))

\* C1 (debounce): a victim that enters the ledger at frame i and is detected in
\* every sampled frame up to frame j, over a span shorter than the memory
\* duration, has exactly one kill event over those frames, timestamped at frame i.
C1_Debounce ==
    \A i \in Frames, j \in Frames : \A v \in F(i).victims :
        DebounceCase(i, j, v) =>
            /\ Cardinality(EventsFor(v, F(i).events_before + 1, F(j).events_after)) = 1
            /\ \A e \in EventsFor(v, F(i).events_before + 1, F(j).events_after) :
                  kill_events[e].timestamp_seconds = F(i).timestamp

C1_Witness ==
    \E i \in Frames, j \in Frames : \E v \in F(i).victims :
        i < j /\ DebounceCase(i, j, v)

\* C2: the events appended during a frame are exactly one per victim detected in
\* it that was absent from the ledger when its candidate was processed; a victim
\* already in the ledger, or detected a second time in the same frame, appends
\* nothing and keeps its first_seen.
C2_EmitOnlyOnTransition ==
    \A k \in Frames :
        LET f == F(k)
            new == f.victims \ DOMAIN f.ledger_before
        IN /\ f.events_after - f.events_before = Cardinality(new)
           /\ \A v \in new : Cardinality(EmittedIn(k, v)) = 1
           /\ \A e \in (f.events_before + 1)..f.events_after :
                 kill_events[e].details.victim \in new
           /\ \A v \in DOMAIN f.ledger_before :
                 /\ EmittedIn(k, v) = {}
                 /\ v \in DOMAIN f.ledger_after =>
                       f.ledger_after[v].first_seen = f.ledger_before[v].first_seen

\* a frame in which one new victim was detected by two candidates, and a frame
\* that detects a victim already in the ledger
C2_Witness ==
    /\ \E k \in Frames :
          /\ F(k).n_detections > Cardinality(F(k).victims)
          /\ F(k).victims \ DOMAIN F(k).ledger_before # {}
    /\ \E k \in Frames : F(k).victims \cap DOMAIN F(k).ledger_before # {}

\* C3 (end-of-frame sweep): a victim of the ledger is removed by the sweep of a
\* frame iff it was not detected in the frame and t - first_seen > memory
\* duration; a victim detected in the frame is in the ledger after the sweep.
C3_Sweep ==
    \A k \in Frames :
        LET f == F(k)
        IN /\ DOMAIN f.ledger_after \subseteq DOMAIN f.ledger_before \cup f.victims
           /\ \A v \in DOMAIN f.ledger_before :
                 v \notin DOMAIN f.ledger_after <=>
                     /\ v \notin f.victims
                     /\ RatGT(RatSub(f.timestamp, f.ledger_before[v].first_seen), Mem)
           /\ \A v \in f.victims : v \in DOMAIN f.ledger_after

\* an eviction, and a detected victim older than the memory duration that stays
C3_Witness ==
    /\ \E k \in Frames : \E v \in DOMAIN F(k).ledger_before : v \notin DOMAIN F(k).ledger_after
    /\ \E k \in Frames : \E v \in DOMAIN F(k).ledger_before :
          /\ v \in F(k).victims
          /\ RatGT(RatSub(F(k).timestamp, F(k).ledger_before[v].first_seen), Mem)

\* v enters the ledger at frame i, is undetected in every frame between i and k,
\* the last of them more than the memory duration after frame i, and is
\* detected again at frame k
EvictionCase(i, k, v) ==
    /\ i + 1 < k
    /\ Fresh(i, v)
    /\ v \in F(i).victims
    /\ \A m \in (i + 1)..(k - 1) : v \notin F(m).victims
    /\ RatGT(Span(i, k - 1), Mem)
    /\ v \in F(k).victims

\* C4 (eviction): a victim detected once and then undetected for longer than the
\* memory duration gets a second kill event, timestamped at the re-detection.
C4_Eviction ==
    \A i \in Frames, k \in Frames : \A v \in F(i).victims :
        EvictionCase(i, k, v) =>
            /\ Cardinality(EmittedIn(i, v)) = 1
            /\ Cardinality(EmittedIn(k, v)) = 1
            /\ \A e \in EmittedIn(k, v) : kill_events[e].timestamp_seconds = F(k).timestamp

C4_Witness ==
    \E i \in Frames, k \in Frames : \E v \in F(i).victims : EvictionCase(i, k, v)

\* a one-frame flicker: v is in the ledger, detected at frame k - 1, undetected
\* at frame k for no longer than the memory duration, and detected at frame k + 1
FlickerCase(k, v) ==
    /\ k - 1 \in Frames
    /\ k + 1 \in Frames
    /\ v \in DOMAIN F(k).ledger_before
    /\ v \in F(k - 1).victims
    /\ v \notin F(k).victims
    /\ v \in F(k + 1).victims
    /\ RatLE(Span(k - 1, k), Mem)

Age(k, v) == RatSub(F(k).timestamp, F(k).ledger_before[v].first_seen)

\* C5 as stated: a one-frame flicker never evicts, whatever the age of the
\* entry, and the re-detection emits nothing.
C5_FlickerNeverEvicts ==
    \A k \in Frames : \A v \in DOMAIN F(k).ledger_before :
        FlickerCase(k, v) =>
            /\ v \in DOMAIN F(k).ledger_after
            /\ EmittedIn(k + 1, v) = {}

\* C5 (amended): a one-frame flicker evicts iff the entry is older than the
\* memory duration at the undetected frame (t - first_seen > memory duration);
\* the re-detection in the next frame emits a kill event iff it evicted.
C5_FlickerByAge ==
    \A k \in Frames : \A v \in DOMAIN F(k).ledger_before :
        FlickerCase(k, v) =>
            /\ v \in DOMAIN F(k).ledger_after <=> RatLE(Age(k, v), Mem)
            /\ EmittedIn(k + 1, v) = {} <=> RatLE(Age(k, v), Mem)

\* a flicker that does not evict, at an age equal to the memory duration
C5_Witness ==
    \E k \in Frames : \E v \in DOMAIN F(k).ledger_before :
        /\ FlickerCase(k, v)
        /\ RatLE(Age(k, v), Mem)
        /\ RatGE(Age(k, v), Mem)

\* C6: a victim detected at a frame no more than the memory duration after a
\* kill event for the same victim gets no second kill event at that frame.
C6_NoSecondEventInWindow ==
    \A k \in Frames : \A v \in F(k).victims :
        (\E e \in 1..F(k).events_before :
            /\ kill_events[e].details.victim = v
            /\ RatLE(RatSub(F(k).timestamp, kill_events[e].timestamp_seconds), Mem))
        => EmittedIn(k, v) = {}

\* a re-detection inside the window after a frame in which v went undetected
C6_Witness ==
    \E k \in Frames : \E v \in F(k).victims :
        /\ k - 1 \in Frames
        /\ v \notin F(k - 1).victims
        /\ \E e \in 1..F(k).events_before :
              /\ kill_events[e].details.victim = v
              /\ RatLE(RatSub(F(k).timestamp, kill_events[e].timestamp_seconds), Mem)

\* a = b for rationals
RatEq(a, b) == a[1] * b[2] = b[1] * a[2]

\* C7: the frames are processed in strictly increasing timestamp order, the
\* k-th being frame (k - 1) * frame_step at time frame_idx / fps; the kill
\* events are in non-decreasing timestamp order, and each carries the time of
\* the frame in which its victim entered the ledger.
C7_TimestampOrder ==
    /\ \A k \in Frames :
          /\ F(k).frame_idx = (k - 1) * config.ocr_frame_step
          /\ RatEq(F(k).timestamp, <<F(k).frame_idx, fps>>)
    /\ \A k \in Frames : k + 1 \in Frames => RatGT(F(k + 1).timestamp, F(k).timestamp)
    /\ \A d \in 1..Len(kill_events), e \in 1..Len(kill_events) :
          d < e => RatLE(kill_events[d].timestamp_seconds, kill_events[e].timestamp_seconds)
    /\ \A e \in 1..Len(kill_events) :
          \E k \in Frames :
             /\ F(k).events_before < e
             /\ e <= F(k).events_after
             /\ RatEq(kill_events[e].timestamp_seconds, <<F(k).frame_idx, fps>>)
             /\ kill_events[e].details.victim \in F(k).victims
             /\ Fresh(k, kill_events[e].details.victim)

\* a returned list with kill events of two different frames
C7_Witness ==
    /\ pc = "done"
    /\ \E d \in 1..Len(kill_events), e \in 1..Len(kill_events) :
          RatGT(kill_events[e].timestamp_seconds, kill_events[d].timestamp_seconds)

\* ------------------------------------------------------------------ correlation properties
\* the merge pass is over and the final sort has not run
MergeDone == cpc = "merge" /\ merge_idx > Len(potential_clips)

\* the trigger loop is over and the candidates are not yet sorted
WindowsDone == cpc = "window" /\ trigger_idx > Len(TriggerEvents)

\* C8 (merge invariant): after the merge pass and before the final sort, the
\* merged clips of each source_video are sorted by clip_start and pairwise
\* non-overlapping: clip_end[i] <= clip_start[j] for i before j.
C8_MergeInvariant ==
    MergeDone =>
        \A i \in 1..Len(merged_clips), j \in 1..Len(merged_clips) :
            (i < j /\ merged_clips[i].source_video = merged_clips[j].source_video) =>
                /\ merged_clips[i].clip_start <= merged_clips[j].clip_start
                /\ merged_clips[i].clip_end <= merged_clips[j].clip_start

\* a merge pass that absorbed a candidate and left two clips of one video
C8_Witness ==
    /\ MergeDone
    /\ Len(merged_clips) < Len(potential_clips)
    /\ \E i \in 1..Len(merged_clips), j \in 1..Len(merged_clips) :
          i < j /\ merged_clips[i].source_video = merged_clips[j].source_video

\* how often x occurs in seq
Count(seq, x) == Cardinality({i \in 1..Len(seq) : seq[i] = x})

Pre == config.clip_pre_buffer_seconds
Post == config.clip_post_buffer_seconds

\* the positions of the kill events of the input
InputKills == {i \in 1..Len(all_events) : all_events[i].type = "kill"}

\* the candidates made for the trigger time t of video v
ClipsAt(v, t) ==
    {c \in 1..Len(potential_clips) :
        /\ potential_clips[c].source_video = v
        /\ potential_clips[c].clip_start = t - Pre
        /\ potential_clips[c].clip_end = t + Post}

\* C9: there is one candidate clip per kill event of the input, with
\* clip_start = t - pre_buffer and clip_end = t + post_buffer, and its
\* events_in_window holds exactly the input events of the same video with
\* t - pre_buffer <= timestamp <= t + post_buffer, each as often as the input.
C9_WindowContents ==
    WindowsDone =>
        /\ Len(potential_clips) = Cardinality(InputKills)
        /\ \A k \in InputKills :
              Cardinality(ClipsAt(all_events[k].source_video, all_events[k].timestamp_seconds))
                  = Cardinality({m \in InputKills :
                        /\ all_events[m].source_video = all_events[k].source_video
                        /\ all_events[m].timestamp_seconds = all_events[k].timestamp_seconds})
        /\ \A c \in 1..Len(potential_clips) : \A x \in EventPool :
              Count(potential_clips[c].events_in_window, x) =
                  IF /\ x.source_video = potential_clips[c].source_video
                     /\ potential_clips[c].clip_start <= x.timestamp_seconds
                     /\ x.timestamp_seconds <= potential_clips[c].clip_end
                  THEN Count(all_events, x)
                  ELSE 0

\* a candidate with an event on each edge of its window, beside an event of
\* another video and an event of its own video outside the window
C9_Witness ==
    /\ WindowsDone
    /\ \E c \in 1..Len(potential_clips) :
          LET clip == potential_clips[c]
          IN /\ \E i \in 1..Len(all_events) :
                   /\ all_events[i].source_video = clip.source_video
                   /\ all_events[i].timestamp_seconds = clip.clip_end
             /\ \E i \in 1..Len(all_events) :
                   /\ all_events[i].source_video = clip.source_video
                   /\ all_events[i].timestamp_seconds = clip.clip_start
             /\ \E i \in 1..Len(all_events) :
                   \/ all_events[i].source_video # clip.source_video
                   \/ all_events[i].timestamp_seconds > clip.clip_end

\* the positions of the input events of type t inside the window of clip
Inside(clip, t) ==
    {i \in 1..Len(all_events) :
        /\ all_events[i].type = t
        /\ all_events[i].source_video = clip.source_video
        /\ clip.clip_start <= all_events[i].timestamp_seconds
        /\ all_events[i].timestamp_seconds <= clip.clip_end}

\* some event of type t inside the window of clip has a text containing word
TextInside(clip, t, word) ==
    \E i \in Inside(clip, t) : Contains(all_events[i].details.text, word)

Weights == config.scoring_weights

\* C10: the score of a candidate window is kills x kill weight, plus the
\* multi-kill bonus iff it holds more than one kill, plus the rage weight iff a
\* chat text in it contains "rage", plus the hype weight iff a voice text in it
\* contains "hype", plus the spike weight iff it holds an audio spike; the tags
\* are exactly the matching ones.
C10_Score ==
    WindowsDone =>
        \A c \in 1..Len(potential_clips) :
            LET clip == potential_clips[c]
                kills == Cardinality(Inside(clip, "kill"))
                multi == kills > 1
                rage == TextInside(clip, "chat", Rage)
                hype == TextInside(clip, "voice", Hype)
                spike == Inside(clip, "audio_spike") # {}
            IN /\ clip.score = kills * Weights.kill
                               + (IF multi THEN Weights.multi_kill_bonus ELSE 0)
                               + (IF rage THEN Weights.enemy_rage_chat ELSE 0)
                               + (IF hype THEN Weights.team_hype_voice ELSE 0)
                               + (IF spike THEN Weights.audio_spike ELSE 0)
               /\ "multi-kill" \in clip.tags <=> multi
               /\ "enemy_rage" \in clip.tags <=> rage
               /\ "team_hype" \in clip.tags <=> hype
               /\ "loud_reaction" \in clip.tags <=> spike
               /\ clip.tags \subseteq {"multi-kill", "enemy_rage", "team_hype", "loud_reaction"}

\* a window with a chat text containing "rage" and tagged enemy_rage, and a
\* window holding a chat text without it and not tagged
C10_Witness ==
    /\ WindowsDone
    /\ \E c \in 1..Len(potential_clips) :
          /\ TextInside(potential_clips[c], "chat", Rage)
          /\ "enemy_rage" \in potential_clips[c].tags
          /\ potential_clips[c].score >= Weights.kill + Weights.enemy_rage_chat
    /\ \E c \in 1..Len(potential_clips) :
          /\ Inside(potential_clips[c], "chat") # {}
          /\ "enemy_rage" \notin potential_clips[c].tags

\* run_correlation has written ordered_highlights.json
Written == cpc = "written"

\* the input positions i, j hold two kills of one video, i's not after j's,
\* each inside the other's window
MutualKills(i, j) ==
    /\ i # j
    /\ all_events[i].type = "kill" /\ all_events[j].type = "kill"
    /\ all_events[i].source_video = all_events[j].source_video
    /\ all_events[i].timestamp_seconds <= all_events[j].timestamp_seconds
    /\ all_events[j].timestamp_seconds - all_events[i].timestamp_seconds <= Pre
    /\ all_events[j].timestamp_seconds - all_events[i].timestamp_seconds <= Post

\* no other event of the video is near the two kills: none lies in their
\* windows and no other kill's window overlaps them
NothingNear(i, j) ==
    \A m \in 1..Len(all_events) \ {i, j} :
        \/ all_events[m].source_video # all_events[i].source_video
        \/ all_events[m].timestamp_seconds <= all_events[i].timestamp_seconds - Pre - Post
        \/ all_events[m].timestamp_seconds >= all_events[j].timestamp_seconds + Pre + Post

\* the output clips of video v that overlap the interval [lo, hi]
ClipsMeeting(v, lo, hi) ==
    {c \in 1..Len(highlights) :
        /\ highlights[c].source_video = v
        /\ highlights[c].clip_start < hi
        /\ highlights[c].clip_end > lo}

\* the two kills i, j give one output clip [t1 - pre, t2 + post] tagged
\* multi-kill with the given score
OneMergedClip(i, j, score) ==
    LET v == all_events[i].source_video
        lo == all_events[i].timestamp_seconds - Pre
        hi == all_events[j].timestamp_seconds + Post
    IN /\ Cardinality(ClipsMeeting(v, lo, hi)) = 1
       /\ \A c \in ClipsMeeting(v, lo, hi) :
             /\ highlights[c].clip_start = lo
             /\ highlights[c].clip_end = hi
             /\ highlights[c].score = score
             /\ highlights[c].tags = {"multi-kill"}

\* C11 as stated: two kills of one video inside each other's window, nothing
\* else near, give one output clip [t1 - pre, t2 + post] with tags
\* {multi-kill} and score 2 x kill_weight + multi_kill_bonus.
C11_TwoKillsScoredOnce ==
    Written =>
        \A i \in 1..Len(all_events), j \in 1..Len(all_events) :
            (MutualKills(i, j) /\ NothingNear(i, j)) =>
                OneMergedClip(i, j, 2 * Weights.kill + Weights.multi_kill_bonus)

\* C11 as the code has it: the one output clip spans [t1 - pre, t2 + post],
\* its tags are {multi-kill}, and its score is the sum of the two candidates'
\* scores, each of which counts both kills: 2 x (2 x kill_weight + multi_kill_bonus).
C11_TwoKillsScoredTwice ==
    Written =>
        \A i \in 1..Len(all_events), j \in 1..Len(all_events) :
            (MutualKills(i, j) /\ NothingNear(i, j)) =>
                OneMergedClip(i, j, 2 * (2 * Weights.kill + Weights.multi_kill_bonus))

\* two such kills at different times, written out as one clip
C11_Witness ==
    /\ Written
    /\ \E i \in 1..Len(all_events), j \in 1..Len(all_events) :
          /\ MutualKills(i, j) /\ NothingNear(i, j)
          /\ all_events[i].timestamp_seconds < all_events[j].timestamp_seconds
          /\ \E c \in 1..Len(highlights) :
                highlights[c].clip_end - highlights[c].clip_start
                    = all_events[j].timestamp_seconds - all_events[i].timestamp_seconds + Pre + Post

\* after is before rearranged, the clips of equal score in the order they had
StableRearrangement(before, after) ==
    /\ Len(after) = Len(before)
    /\ \E f \in [1..Len(after) -> 1..Len(before)] :
          /\ \A k \in 1..Len(after) : after[k] = before[f[k]]
          /\ \A k \in 1..Len(after), l \in 1..Len(after) :
                k < l => /\ f[k] # f[l]
                         /\ after[k].score = after[l].score => f[k] < f[l]

\* the scores never rise along clips
DescendingScores(clips) ==
    \A k \in 1..Len(clips), l \in 1..Len(clips) : k < l => clips[k].score >= clips[l].score

\* clips of equal score are in ascending (source_video, clip_start) order
TiesChronological(clips) ==
    \A k \in 1..Len(clips), l \in 1..Len(clips) :
        (k < l /\ clips[k].score = clips[l].score) => ClipBefore(clips[k], clips[l])

\* C12: the step that writes the output writes the merged clips rearranged
\* into descending score order, the clips of equal score keeping the order
\* the merge pass left them in, which is ascending (source_video, clip_start).
C12_FinalOrder ==
    [][(cpc = "merge" /\ cpc' = "written") =>
          /\ StableRearrangement(merged_clips, highlights')
          /\ DescendingScores(highlights')
          /\ TiesChronological(highlights')]_vars

\* an output in which the sort moved a later clip ahead of an earlier one
\* and left two clips of equal score in chronological order
C12_Witness ==
    /\ Written
    /\ \E k \in 1..Len(highlights), l \in 1..Len(highlights) :
          k < l /\ highlights[k].score > highlights[l].score
                /\ ClipBefore(highlights[l], highlights[k])
    /\ \E k \in 1..Len(highlights), l \in 1..Len(highlights) :
          k < l /\ highlights[k].score = highlights[l].score

\* run_correlation is over: it returned early or wrote its output
Finished == cpc \in {"returned", "written"}

\* C13 as stated: when the input is empty or holds no kill event,
\* run_correlation ends without an error and ordered_highlights.json then
\* holds an empty clip list.
C13_EmptyOutput ==
    (Finished /\ InputKills = {}) =>
        /\ highlights_file = "written"
        /\ highlights = <<>>

\* the events of the pool that lie inside the window of trigger
Qualifying(trigger) ==
    {e \in EventPool :
        /\ e.source_video = trigger.source_video
        /\ e.timestamp_seconds >= trigger.timestamp_seconds - Pre
        /\ e.timestamp_seconds <= trigger.timestamp_seconds + Post}

\* the sorted frame run_correlation builds when e is appended to the input:
\* the stable sort puts e behind the events of df whose key is not above its
\* own, so FrameWith(e) = SortEvents(Append(all_events, e))
FrameWith(e) ==
    LET p == Cardinality({i \in 1..Len(df) : ~EventBefore(e, df[i])})
    IN SubSeq(df, 1, p) \o <<e>> \o SubSeq(df, p + 1, Len(df))

\* C14 (score monotonicity): for every event list and every kill trigger of
\* it, the score of the trigger's window computed from the list with one more
\* event of the same video inside the window is never below the score
\* computed from the list itself. The weights are those of the configuration,
\* none negative.
C14_ScoreMonotone ==
    WindowsDone =>
        \A k \in 1..Len(TriggerEvents) : \A e \in Qualifying(TriggerEvents[k]) :
            CandidateClip(FrameWith(e), TriggerEvents[k], config).score
                >= potential_clips[k].score

\* a window whose score an added kill raises by the kill weight and the
\* multi-kill bonus, and which a further audio spike leaves unchanged
C14_Witness ==
    /\ WindowsDone
    /\ \E k \in 1..Len(TriggerEvents) :
          /\ \E e \in Qualifying(TriggerEvents[k]) :
                /\ e.type = "kill"
                /\ CandidateClip(FrameWith(e), TriggerEvents[k], config).score
                       = potential_clips[k].score + Weights.kill + Weights.multi_kill_bonus
          /\ \E e \in Qualifying(TriggerEvents[k]) :
                /\ e.type = "audio_spike"
                /\ CandidateClip(FrameWith(e), TriggerEvents[k], config).score
                       = potential_clips[k].score

\* the input positions i, j hold the nearest kills of two clusters of one
\* video: i's before j's, no kill of the video between them, and more than
\* pre_buffer + post_buffer apart
ClusterGap(i, j) ==
    /\ i \in InputKills /\ j \in InputKills
    /\ all_events[i].source_video = all_events[j].source_video
    /\ all_events[j].timestamp_seconds - all_events[i].timestamp_seconds > Pre + Post
    /\ \A m \in InputKills :
          all_events[m].source_video = all_events[i].source_video =>
              \/ all_events[m].timestamp_seconds <= all_events[i].timestamp_seconds
              \/ all_events[m].timestamp_seconds >= all_events[j].timestamp_seconds

\* the output clips of video v whose interval holds the time t
ClipsHolding(v, t) ==
    {c \in 1..Len(highlights) :
        /\ highlights[c].source_video = v
        /\ highlights[c].clip_start <= t
        /\ t <= highlights[c].clip_end}

\* C15: two kill clusters of one video whose nearest kills are more than
\* pre_buffer + post_buffer apart come out as two separate clips, no output
\* clip holding a kill of each, and the one that comes first in the output
\* has a score not below the other's.
C15_ClustersStaySeparate ==
    Written =>
        \A i \in 1..Len(all_events), j \in 1..Len(all_events) :
            ClusterGap(i, j) =>
                LET v == all_events[i].source_video
                    left == ClipsHolding(v, all_events[i].timestamp_seconds)
                    right == ClipsHolding(v, all_events[j].timestamp_seconds)
                IN /\ Cardinality(left) = 1
                   /\ Cardinality(right) = 1
                   /\ left \cap right = {}
                   /\ \A c \in left, d \in right :
                         /\ highlights[c].clip_end < highlights[d].clip_start
                         /\ c < d => highlights[c].score >= highlights[d].score
                         /\ d < c => highlights[d].score >= highlights[c].score

\* two clusters far apart, the later one holding several kills and ranked
\* first
C15_Witness ==
    /\ Written
    /\ \E i \in 1..Len(all_events), j \in 1..Len(all_events) :
          /\ ClusterGap(i, j)
          /\ \E c \in ClipsHolding(all_events[i].source_video, all_events[i].timestamp_seconds),
                d \in ClipsHolding(all_events[j].source_video, all_events[j].timestamp_seconds) :
                /\ d < c
                /\ "multi-kill" \in highlights[d].tags

\* position k holds the only kill of the input, and no other event of its
\* video lies inside its window
LoneKill(k) ==
    /\ InputKills = {k}
    /\ \A m \in 1..Len(all_events) \ {k} :
          \/ all_events[m].source_video # all_events[k].source_video
          \/ all_events[m].timestamp_seconds < all_events[k].timestamp_seconds - Pre
          \/ all_events[m].timestamp_seconds > all_events[k].timestamp_seconds + Post

\* C16: a single kill event with no other event of its video inside its
\* window gives exactly one output clip, [t - pre_buffer, t + post_buffer],
\* whose score is the kill weight, whose tag set is empty and whose events
\* are the kill alone.
C16_SingleKill ==
    Finished =>
        \A k \in 1..Len(all_events) :
            LoneKill(k) =>
                /\ Written
                /\ Len(highlights) = 1
                /\ highlights[1].source_video = all_events[k].source_video
                /\ highlights[1].clip_start = all_events[k].timestamp_seconds - Pre
                /\ highlights[1].clip_end = all_events[k].timestamp_seconds + Post
                /\ highlights[1].score = Weights.kill
                /\ highlights[1].tags = {}
                /\ highlights[1].events_in_window = <<all_events[k]>>

\* a lone kill written out, the input also holding an event of another video
\* at a time inside the window and an event of its own video outside it
C16_Witness ==
    /\ Written
    /\ \E k \in 1..Len(all_events) :
          /\ LoneKill(k)
          /\ \E m \in 1..Len(all_events) :
                /\ all_events[m].source_video # all_events[k].source_video
                /\ all_events[m].timestamp_seconds >= all_events[k].timestamp_seconds - Pre
                /\ all_events[m].timestamp_seconds <= all_events[k].timestamp_seconds + Post
          /\ \E m \in 1..Len(all_events) :
                /\ all_events[m].source_video = all_events[k].source_video
                /\ all_events[m].timestamp_seconds > all_events[k].timestamp_seconds + Post

C18_NoSharedMutableState ==
    /\ writers.config = {}
    /\ \A t \in Submitted :
          /\ writers.active_kills[t] \subseteq {t}
          /\ writers.all_events[t] \subseteq {t}
          /\ writers.video_config[t] \subseteq {t}
    /\ \A n \in Stems : Cardinality(writers.video_data_folder[n]) <= 1
    /\ Cardinality(writers.progress) <= 1
    /\ Cardinality(writers.progress_file) <= 1

\* C19 as stated: when analyze_killfeed is over for a video - its loop ran
\* to the end, a frame could not be decoded, or an exception was raised while
\* a frame was processed - the frame-reading handle is not open any more.
C19_HandleReleased ==
    pc \in {"done", "raised"} => cap # "open"

\* C20: when analyze_audio has returned after extracting the audio - on
\* success, after a transcription failure and after an energy-analysis
\* failure - the temporary audio file does not exist.
C20_TempAudioDeleted ==
    (apc = "returned" /\ audio_exit \in {"success", "transcription_failure", "energy_failure"}) =>
        /\ audio_path = TempAudioPath
        /\ audio_file = "absent"

\* the energy analysis failed: the lists returned are empty and the file
\* that was extracted is gone
C20_Witness ==
    /\ apc = "returned"
    /\ audio_exit = "energy_failure"
    /\ audio_file = "absent"
    /\ voice_events = <<>>

\* the number of kill events appended while the frames seen were processed
Accumulated == IF frames_seen = <<>> THEN 0 ELSE F(Len(frames_seen)).events_after

\* C21: once cap.read() has failed for a frame, analyze_killfeed has returned
\* without raising, no frame at or after the failing one has been processed,
\* and the list it returned holds exactly the kill events appended during the
\* frames before it, each with the time of the frame that appended it.
C21_DecodeFailureReturnsPartial ==
    ret = "False" =>
        /\ pc = "done"
        /\ frame_idx < total_frames
        /\ Len(frames_seen) * config.ocr_frame_step = frame_idx
        /\ Len(kill_events) = Accumulated
        /\ \A e \in 1..Len(kill_events) :
              \E k \in Frames :
                 /\ F(k).events_before < e
                 /\ e <= F(k).events_after
                 /\ kill_events[e].timestamp_seconds = F(k).timestamp

\* a decoding failure after two frames or more, with a kill event returned
\* and a victim still in the ledger
C21_Witness ==
    /\ ret = "False"
    /\ pc = "done"
    /\ Len(frames_seen) >= 2
    /\ kill_events # <<>>
    /\ active_kills # EmptyLedger

\* C22 as stated: a capability error is never propagated - analyze_killfeed
\* is never left by an exception raised while a frame is processed, as when
\* the OCR call throws.
C22_CapabilityErrorsContained ==
    pc # "raised"

\* what the videos of log contributed, in the order of the three extends
RECURSIVE Contributed(_)
Contributed(log) ==
    IF log = <<>> THEN <<>>
    ELSE Head(log).kill_events \o Head(log).spike_events \o Head(log).voice_events
         \o Contributed(Tail(log))

\* no exception was raised while a frame of a video of the batch was processed
InputErrorsOnly ==
    \A k \in 1..Len(batch_log) : batch_log[k].met # "exception"

\* C23: while the videos of the batch meet nothing worse than a video that
\* does not open or a frame that cannot be decoded, run_analysis is not left
\* by an exception and goes through the videos in manifest order; the list it
\* writes holds, video after video, what each video gave before it failed -
\* nothing for a video that did not open - followed by its audio events.
C23_InputErrorNotFatal ==
    /\ InputErrorsOnly => bpc # "raised"
    /\ bpc \in {"loop", "written"} =>
          /\ Len(batch_log) = video_pos - 1
          /\ \A k \in 1..Len(batch_log) :
                /\ batch_log[k].video = video_paths[k]
                /\ batch_log[k].met = "unopened" => batch_log[k].kill_events = <<>>
          /\ batch_events = Contributed(batch_log)
    /\ bpc = "written" =>
          /\ Len(batch_log) = Len(video_paths)
          /\ events_file = <<Contributed(batch_log)>>

\* a written batch in which a video that did not decode to its end gave a
\* kill event and a later video did not open
C23_Witness ==
    /\ bpc = "written"
    /\ \E i \in 1..Len(batch_log), j \in 1..Len(batch_log) :
          /\ i < j
          /\ batch_log[i].met = "truncated"
          /\ batch_log[i].kill_events # <<>>
          /\ batch_log[j].met = "unopened"
          /\ events_file[1] # <<>>

\* C24 as stated: with a required key absent from the configuration, the
\* correlate stage fails at its start for every input - it never gets past
\* loading the events other than by the error, and no candidate has been
\* made when it fails.
C24_FailsAtStageStart ==
    /\ cpc \in {"load", "raised"}
    /\ potential_clips = <<>>

\* the positions of the history that hold a stage signal
StageSignals == {k \in 1..Len(emitted) : emitted[k].sig \in {"stage_started", "stage_completed"}}

\* the stage signals after position k, and before it
LaterSignals(k) == {j \in StageSignals : j > k}
EarlierSignals(k) == {j \in StageSignals : j < k}

\* every stage_started(s) is followed by stage_completed(s, _) before any
\* other stage signal, unless s is still running; every stage_completed(s, _)
\* follows the stage_started(s) that is the stage signal before it
StagesRunToTheirEnd ==
    \A k \in StageSignals :
        IF emitted[k].sig = "stage_started"
        THEN IF LaterSignals(k) = {}
             THEN wpc = "exec" /\ stages[stage_pos] = emitted[k].stage
             ELSE \E j \in LaterSignals(k) :
                     /\ \A m \in LaterSignals(k) : j <= m
                     /\ emitted[j].sig = "stage_completed"
                     /\ emitted[j].stage = emitted[k].stage
        ELSE \E j \in EarlierSignals(k) :
                /\ \A m \in EarlierSignals(k) : m <= j
                /\ emitted[j].sig = "stage_started"
                /\ emitted[j].stage = emitted[k].stage

\* the stop() calls in the history
Stops == {k \in 1..Len(emitted) : emitted[k].sig = "stop"}

\* the stage_started signals emitted after position k
StartsAfter(k) == {j \in 1..Len(emitted) : j > k /\ emitted[j].sig = "stage_started"}

\* C25 as stated: a stage that has started runs to its end before anything
\* else starts, and once stop() has been called no stage is started.
C25_NoStageAfterStop ==
    /\ StagesRunToTheirEnd
    /\ \A k \in Stops : StartsAfter(k) = {}

\* C25 (amended): a stage that has started runs to its end before anything
\* else starts. After a stop() call at most one stage is started, and that
\* only when the call came after the worker had read the flag for that stage
\* and before it emitted stage_started; no stage starts after a stop() call
\* that came at any other point.
C25_AtMostOneStageAfterStop ==
    /\ StagesRunToTheirEnd
    /\ \A k \in Stops :
          /\ Cardinality(StartsAfter(k)) <= 1
          /\ StartsAfter(k) # {} => emitted[k].at = "emit"

\* stop() called between the flag's last reading and stage_started: the stage
\* started, ran to its end with success, and the worker finished with a
\* stage of its list never started
C25_Witness ==
    /\ wpc = "finished"
    /\ \E k \in Stops :
          /\ emitted[k].at = "emit"
          /\ \E j \in StartsAfter(k) :
                \E m \in LaterSignals(j) : emitted[m].sig = "stage_completed" /\ emitted[m].success
    /\ Cardinality({k \in StageSignals : emitted[k].sig = "stage_started"}) < Len(stages)

\* the one contour of the first frame of the video
Box == video_frames[1][1]

\* the two tests of the claim on the box, with width / height >= n / d taken
\* as width x d >= n x height for a height above 0
BoxPasses ==
    /\ config.killfeed_rect_min_height <= Box.h
    /\ Box.h <= config.killfeed_rect_max_height
    /\ Box.h > 0
    /\ Box.w * config.killfeed_rect_min_aspect_ratio[2]
           >= config.killfeed_rect_min_aspect_ratio[1] * Box.h

\* C26: a contour whose crop reads as a kill line is a candidate - it is
\* read, its victim detected and its kill event emitted - iff its box has
\* min_h <= height <= max_h and width / height >= min_aspect_ratio; a box
\* that fails a test gives no detection, no victim, no ledger entry and no
\* kill event, in its frame or later.
C26_ShapeFilter ==
    frames_seen # <<>> =>
        /\ F(1).n_detections = (IF BoxPasses THEN 1 ELSE 0)
        /\ F(1).victims = (IF BoxPasses THEN {Bob} ELSE {})
        /\ DOMAIN F(1).ledger_after = (IF BoxPasses THEN {Bob} ELSE {})
        /\ Len(kill_events) = (IF BoxPasses THEN 1 ELSE 0)

\* a box on both limits - the greatest height and the least aspect ratio -
\* has given its kill event
C26_Witness ==
    /\ frames_seen # <<>>
    /\ Box.h = config.killfeed_rect_max_height
    /\ Box.w * config.killfeed_rect_min_aspect_ratio[2]
           = config.killfeed_rect_min_aspect_ratio[1] * Box.h
    /\ Len(kill_events) = 1

\* the text read from the one contour of the first frame
FullText == video_frames[1][1].ocr[1]

\* where the whitespace-delimited tokens of s start
TokenStarts(s) == {i \in 1..Len(s) : s[i] # SP /\ (i = 1 \/ s[i - 1] = SP)}

\* the token of s that starts at i: up to the character before the next space
TokenAt(s, i) ==
    SubSeq(s, i, CHOOSE j \in i..Len(s) :
                    /\ \A m \in i..j : s[m] # SP
                    /\ j = Len(s) \/ s[j + 1] = SP)

\* the token that starts at the least position of starts
FirstOf(s, starts) == TokenAt(s, CHOOSE i \in starts : \A j \in starts : i <= j)

\* s without the spaces at its ends
Trimmed(s) ==
    LET inked == {i \in 1..Len(s) : s[i] # SP}
    IN IF inked = {} THEN <<>>
       ELSE SubSeq(s, CHOOSE i \in inked : \A j \in inked : i <= j,
                      CHOOSE i \in inked : \A j \in inked : i >= j)

\* s up to its first occurrence of sep, without the spaces at its ends
TextBefore(s, sep) ==
    Trimmed(SubSeq(s, 1, (CHOOSE i \in Occurrences(s, sep) :
                             \A j \in Occurrences(s, sep) : i <= j) - 1))

\* the victim of the claim: the last token
VictimOf(s) == TokenAt(s, CHOOSE i \in TokenStarts(s) : \A j \in TokenStarts(s) : i >= j)

\* the assister of the claim: the token after the first "+" token, if both exist
AssisterOf(s) ==
    LET plus == {i \in TokenStarts(s) : TokenAt(s, i) = <<"+">>}
    IN IF plus = {} THEN Null
       ELSE LET next == {i \in TokenStarts(s) : i > (CHOOSE p \in plus : \A q \in plus : p <= q)}
            IN IF next = {} THEN Null ELSE FirstOf(s, next)

\* the killer of the claim: the text before the first " + ", else before the
\* first marker between spaces, else the first token
KillerOf(s) ==
    IF Occurrences(s, <<SP, "+", SP>>) # {} THEN TextBefore(s, <<SP, "+", SP>>)
    ELSE IF Occurrences(s, <<SP, "►", SP>>) # {} THEN TextBefore(s, <<SP, "►", SP>>)
    ELSE FirstOf(s, TokenStarts(s))

\* C27: a text with fewer than two whitespace-delimited tokens parses to
\* nothing - no victim, no event. Any other text gives the victim as its last
\* token, the assister as the token after its first "+" token (null without
\* a "+" token or with nothing after it), and the killer as the text before
\* its first " + " if it has one, else the text before its first " ► " if it
\* has one, else its first token; the event carries the text as raw_text.
C27_Parse ==
    frames_seen # <<>> =>
        IF Cardinality(TokenStarts(FullText)) < 2
        THEN /\ F(1).victims = {}
             /\ kill_events = <<>>
        ELSE /\ F(1).victims = {VictimOf(FullText)}
             /\ Len(kill_events) = 1
             /\ kill_events[1].details.victim = VictimOf(FullText)
             /\ kill_events[1].details.assister = AssisterOf(FullText)
             /\ kill_events[1].details.detected_player = KillerOf(FullText)
             /\ kill_events[1].details.raw_text = FullText

\* a kill line with a killer of two words, an assister and a victim
C27_Witness ==
    /\ frames_seen # <<>>
    /\ Len(kill_events) = 1
    /\ kill_events[1].details.detected_player = <<"M", SP, "K">>
    /\ kill_events[1].details.assister = <<"J">>
    /\ kill_events[1].details.victim = Al

\* clips is in ascending (source_video, clip_start) order
SortedByVideoAndStart(clips) ==
    \A k \in 1..Len(clips), l \in 1..Len(clips) : k < l => ~ClipBefore(clips[l], clips[k])

\* C28: every step of the merge pass takes the next candidate of the list
\* sorted by (source_video, clip_start). If it has the running clip's
\* source_video and its clip_start is strictly below the running clip_end,
\* the running clip - the last of the result - gets the greater of the two
\* ends, the sum of the two scores and the union of the two tag sets, and
\* nothing else changes; else the candidate is appended as the new running
\* clip and the clips before it stay as they are.
C28_MergePass ==
    [][(cpc = "merge" /\ merge_idx' = merge_idx + 1) =>
          LET current_clip == potential_clips[merge_idx]
              n == Len(merged_clips)
              last_clip == merged_clips[n]
          IN /\ SortedByVideoAndStart(potential_clips)
             /\ IF /\ current_clip.source_video = last_clip.source_video
                   /\ current_clip.clip_start < last_clip.clip_end
                THEN /\ Len(merged_clips') = n
                     /\ \A k \in 1..(n - 1) : merged_clips'[k] = merged_clips[k]
                     /\ merged_clips'[n].clip_end =
                           (IF last_clip.clip_end >= current_clip.clip_end
                            THEN last_clip.clip_end ELSE current_clip.clip_end)
                     /\ merged_clips'[n].score = last_clip.score + current_clip.score
                     /\ merged_clips'[n].tags = last_clip.tags \cup current_clip.tags
                     /\ merged_clips'[n].source_video = last_clip.source_video
                     /\ merged_clips'[n].clip_start = last_clip.clip_start
                     /\ merged_clips'[n].events_in_window = last_clip.events_in_window
                ELSE merged_clips' = Append(merged_clips, current_clip)]_vars

\* a finished merge pass that absorbed a candidate, closed a clip at a
\* candidate starting exactly at its end, and closed one at a candidate of
\* another video
C28_Witness ==
    /\ MergeDone
    /\ Len(merged_clips) < Len(potential_clips)
    /\ \E k \in 1..(Len(merged_clips) - 1) :
          /\ merged_clips[k].source_video = merged_clips[k + 1].source_video
          /\ merged_clips[k].clip_end = merged_clips[k + 1].clip_start
    /\ \E k \in 1..(Len(merged_clips) - 1) :
          merged_clips[k].source_video # merged_clips[k + 1].source_video


\* ------------------------------------------------------------------ coverage
\* the positions of the kill events in all_events.json
KillsOfInput == {i \in 1..Len(all_events) : all_events[i].type = "kill"}

\* clip c holds the whole window of kill event k
Covers(c, k) ==
    /\ c.source_video = k.source_video
    /\ c.clip_start <= k.timestamp_seconds - config.clip_pre_buffer_seconds
    /\ k.timestamp_seconds + config.clip_post_buffer_seconds <= c.clip_end

\* C31 (coverage): a run of run_correlation over an input with a kill event
\* ends by writing its output; every kill event of the input has a clip of
\* the output, of its video, that holds its whole window; and the output has
\* at least one clip and at most as many clips as the input has kill events.
C31_Coverage ==
    cpc \in {"written", "returned"} /\ KillsOfInput # {} =>
        /\ cpc = "written"
        /\ highlights_file = "written"
        /\ \A i \in KillsOfInput :
              \E j \in 1..Len(highlights) : Covers(highlights[j], all_events[i])
        /\ 1 <= Len(highlights)
        /\ Len(highlights) <= Cardinality(KillsOfInput)

\* a written output with fewer clips than kill events, clips of two videos,
\* and a clip that is longer than one window
C31_Witness ==
    /\ cpc = "written"
    /\ Len(highlights) < Cardinality(KillsOfInput)
    /\ \E i \in 1..Len(highlights), j \in 1..Len(highlights) :
          highlights[i].source_video # highlights[j].source_video
    /\ \E j \in 1..Len(highlights) :
          highlights[j].clip_end - highlights[j].clip_start >
             config.clip_pre_buffer_seconds + config.clip_post_buffer_seconds

\* ------------------------------------------------------------------ what a merged clip keeps
\* candidate p and clip m of one video share some time
Overlaps(p, m) ==
    /\ p.source_video = m.source_video
    /\ p.clip_start < m.clip_end
    /\ m.clip_start < p.clip_end

\* clip m has the source_video, clip_start and events_in_window of candidate p
KeepsHead(m, p) ==
    /\ m.source_video = p.source_video
    /\ m.clip_start = p.clip_start
    /\ m.events_in_window = p.events_in_window

\* the kill events of a video between lo and hi
KillsWithin(video, lo, hi) ==
    {i \in KillsOfInput : /\ all_events[i].source_video = video
                          /\ lo <= all_events[i].timestamp_seconds
                          /\ all_events[i].timestamp_seconds <= hi}

\* C32: through the merge pass and in the output, every clip has the
\* source_video, the clip_start and the events_in_window of the first,
\* earliest-starting, of the candidates it was made of: its event list is
\* the events of that candidate's window alone, whatever was absorbed.
C32_MergeKeepsFirstEvents ==
    cpc \in {"merge", "written"} =>
        \A j \in 1..Len(merged_clips) :
            \E m \in {merged_clips[j]} :
               /\ \E i \in 1..Len(potential_clips) :
                     /\ KeepsHead(m, potential_clips[i])
                     /\ \A l \in 1..Len(potential_clips) :
                           Overlaps(potential_clips[l], m) =>
                              potential_clips[i].clip_start <= potential_clips[l].clip_start
               /\ m.events_in_window =
                     WindowDf(df, m.source_video, m.clip_start,
                              m.clip_start + config.clip_pre_buffer_seconds
                                           + config.clip_post_buffer_seconds)

\* a written clip that absorbed a candidate whose kill event lies in the
\* clip's span and is not in its events_in_window
C32_Witness ==
    /\ cpc = "written"
    /\ \E j \in 1..Len(highlights) :
          \E i \in KillsWithin(highlights[j].source_video, highlights[j].clip_start,
                               highlights[j].clip_end) :
             /\ Covers(highlights[j], all_events[i])
             /\ \A e \in 1..Len(highlights[j].events_in_window) :
                   highlights[j].events_in_window[e] # all_events[i]

\* ------------------------------------------------------------------ ledger and events
\* the sampled frames up to frame k in which v went from absent to active
Transitions(k, v) == {i \in 1..k : v \in F(i).victims /\ Fresh(i, v)}

\* the victims of the frames and of the events so far
VictimsSoFar ==
    UNION {F(k).victims : k \in Frames}
    \cup {kill_events[e].details.victim : e \in 1..Len(kill_events)}

\* C30 (ledger/event consistency): after every processed frame, each victim
\* of the ledger has at least one kill event, and its first_seen is the
\* timestamp of the latest kill event for that victim; and for every victim
\* the number of its kill events is the number of its transitions from
\* absent to active. The frame looked at is the latest one processed, in
\* every state of the loop.
C30_LedgerEventConsistency ==
    frames_seen # <<>> =>
        \E k \in {Len(frames_seen)} :
           /\ pc = "loop" => active_kills = F(k).ledger_after
           /\ \A v \in DOMAIN F(k).ledger_after :
                 \E evs \in {EventsFor(v, 1, F(k).events_after)} :
                    /\ evs # {}
                    /\ \E e \in evs :
                          /\ \A d \in evs : d <= e
                          /\ kill_events[e].timestamp_seconds = F(k).ledger_after[v].first_seen
           /\ \A v \in VictimsSoFar :
                 Cardinality(EventsFor(v, 1, F(k).events_after)) = Cardinality(Transitions(k, v))

\* a victim that was evicted and detected again: it has two kill events, and
\* its first_seen is the time of the second, while at an earlier frame it was
\* in the ledger with the time of the first
C30_Witness ==
    \E k \in Frames : \E v \in DOMAIN F(k).ledger_after :
        /\ Cardinality(Transitions(k, v)) = 2
        /\ \E i \in 1..(k - 1) :
              /\ v \in DOMAIN F(i).ledger_after
              /\ F(i).ledger_after[v].first_seen # F(k).ledger_after[v].first_seen

\* ------------------------------------------------------------------ region-of-interest properties
\* C29: for every region and every positive video resolution the list
\* returned by scale_roi_for_resolution lies inside the video and is not
\* empty: 0 <= x1 < x2 <= video_width and 0 <= y1 < y2 <= video_height.
C29_ScaledRoiInBounds ==
    rpc = "returned" =>
        /\ video_width > 0 /\ video_height > 0
        /\ 0 <= scaled_roi[1] /\ scaled_roi[1] < scaled_roi[3] /\ scaled_roi[3] <= video_width
        /\ 0 <= scaled_roi[2] /\ scaled_roi[2] < scaled_roi[4] /\ scaled_roi[4] <= video_height


\* ------------------------------------------------------------------ resume
\* C33 (resume): get_unprocessed_videos never returns a video that is in
\* videos_processed or videos_failed, no video waiting in a run is in either
\* list, and no video is processed twice between two calls of reset_progress.
C33_Resume ==
    spc # "idle" =>
        /\ \A i \in 1..Len(selection.chosen) : selection.chosen[i] \notin selection.recorded
        /\ \A i \in 1..Len(unprocessed) :
              /\ unprocessed[i] \notin Recorded(progress, "videos_processed")
              /\ unprocessed[i] \notin Recorded(progress, "videos_failed")
        /\ \A v \in ManifestVideos : times_processed[v] <= 1

\* a later run: its selection found a processed and a failed video recorded,
\* returned a third one, and that one has been processed
C33_Witness ==
    /\ spc = "ready"
    /\ \E i \in 1..Len(selection.chosen) : times_processed[selection.chosen[i]] = 1
    /\ selection.recorded \cap Recorded(progress, "videos_processed") # {}
    /\ selection.recorded \cap Recorded(progress, "videos_failed") # {}


\* ------------------------------------------------------------------ the two lists of the progress
\* how often video t is in the list
TimesIn(list, t) == Cardinality({i \in 1..Len(list) : list[i] = t})

\* every submitted call is over and run_analysis_parallel has returned
ParallelReturned == tpc # <<>> /\ \A t \in Submitted : tpc[t] = "done"

\* C34 as stated: when run_analysis_parallel returns, every video that was
\* unprocessed at its start is exactly once in exactly one of
\* videos_processed and videos_failed, whatever the interleaving and whatever
\* failed for a video.
C34_OnceInOneList ==
    ParallelReturned =>
        \A t \in Submitted :
            TimesIn(progress.videos_processed, t) + TimesIn(progress.videos_failed, t) = 1


\* ------------------------------------------------------------------ stage order
\* the positions of the stage_started signals, and of the stage_completed ones
Started == {k \in StageSignals : emitted[k].sig = "stage_started"}
Completed == {k \in StageSignals : emitted[k].sig = "stage_completed"}

\* C35: the stages started are the first ones of the list, in the list's
\* order and each once; a stage whose name execute_stage does not know
\* completes with False; and after a stage completed with False no stage is
\* started.
C35_ListOrderUntilFailure ==
    /\ Cardinality(Started) <= Len(stages)
    /\ \A k \in Started :
          emitted[k].stage = stages[Cardinality({j \in Started : j <= k})]
    /\ \A k \in Completed :
          /\ emitted[k].stage \notin KnownStages => ~emitted[k].success
          /\ ~emitted[k].success => \A j \in Started : j < k

\* a finished run of a two-stage list whose first stage failed, with nothing
\* started after it
C35_Witness ==
    /\ wpc = "finished"
    /\ Len(stages) = 2
    /\ Cardinality(Started) = 1
    /\ \E k \in Completed : ~emitted[k].success /\ emitted[k].stage = stages[1]
    /\ Stops = {}


\* ------------------------------------------------------------------ the finished signal
\* the positions of the finished signals
Finishes == {k \in 1..Len(emitted) : emitted[k].sig = "finished"}

\* every stage of the list has completed with True
EveryStageSucceeded ==
    \A i \in 1..Len(stages) :
        \E k \in Completed : emitted[k].stage = stages[i] /\ emitted[k].success

\* finished is emitted once when run() ends and not before, and its argument
\* is True iff the configuration was loaded and validated (the signal comes
\* from the end of run() and not from one of its early returns), every stage
\* of the list succeeded, and stop() was not called
FinishedOnce ==
    /\ Cardinality(Finishes) = (IF wpc = "finished" THEN 1 ELSE 0)
    /\ \A k \in Finishes :
          emitted[k].success <=>
             (emitted[k].at = "finish" /\ EveryStageSucceeded /\ Stops = {})

C37_OneFolderPerVideo ==
    tpc # <<>> =>
        /\ \A t \in Submitted, u \in Submitted :
              submitted[t] # submitted[u] => video_stem[t] # video_stem[u]
        /\ \A n \in Stems : Cardinality(writers.video_data_folder[n]) <= 1
        /\ ParallelReturned =>
              \A t \in Submitted :
                  TimesIn(progress.videos_processed, t) > 0 => SummaryReads(t) = t

====
